---- MODULE Spec2Model ----
(***************************************************************************)
(* Model of the Ditto Drizzle driver: the SQL -> DQL statement translator  *)
(* (sqlToDql), the error classes it raises, the driver operations that     *)
(* hand a translated statement to the Ditto store, the mapping of the     *)
(* documents the store returns to the rows handed to the caller,           *)
(* transactions and the sessions they run on, the validation of the schema *)
(* at construction, and observe().                                         *)
(*                                                                         *)
(* Spec runs one call of one operation; HandleSpec runs db and several     *)
(* transactions side by side; ConstructSpec constructs the database with a *)
(* schema; ObserveSpec runs one observation, and FairObserveSpec adds that *)
(* a pending timer fires.                                                  *)
(*                                                                         *)
(* Statement text is a TLA+ string and is processed character by           *)
(* character: Lex splits it into words, quoted identifiers, whitespace     *)
(* runs and punctuation, and every rewrite works on that token list and    *)
(* joins it back into text.  A parameter value is a string; the JavaScript *)
(* values null and undefined are the strings NullValue and UndefinedValue. *)
(***************************************************************************)
EXTENDS Integers, Sequences, FiniteSets, TLC

VARIABLES
    op,         \* the operation requested: "sqlToDql", "run", "createIndex",
                \* "all", "get", "values", "transaction", "construct",
                \* "observe", or "sessions" for sessions side by side
    sql,        \* statement text handed to sqlToDql
    params,     \* parameter array handed to sqlToDql
    index,      \* arguments of createIndex: tableName, columnName, indexName
    pc,         \* "start" before the operation has run, "done" after it,
                \* "selected" after the query that follows an INSERT; for a
                \* transaction "intx" while transactionFn runs, "settled"
                \* once db.transaction has settled, "queried" after the
                \* query that follows it; "observing" once observe() has
                \* registered its observer
    result,     \* what sqlToDql returned or threw
    executed,   \* the calls store.execute(query, args) received, oldest first
    fields,     \* the prepared query's field list: the last path segment of
                \* every selected field, NoFields when it has none
    isResponseInArrayMode,  \* the prepared query's _isResponseInArrayMode
    stored,     \* the documents the store holds and returns to a query
    returned,   \* the rows all() / values() returned; what get() returned
                \* as a sequence of one row, empty for undefined
    transactionFn,  \* the function passed to db.transaction: the statements
                \* it runs on tx, after how many of them it throws, its value
    dittoTx,    \* the store's transaction: its state, how many statements
                \* of transactionFn have run, the calls it received and the
                \* documents it holds
    settled,    \* how the promise of db.transaction settled
    config,     \* the config object passed to db.transaction
    nested,     \* the attempts transactionFn made to open a transaction on
                \* tx, oldest first: what each threw and whether the
                \* function it was given was invoked
    sessions,   \* the sessions statements are issued through: 0 is the
                \* session of db, t the session of the t-th transaction;
                \* each has a state and the store handle it was built on
    schema,     \* the schema of the config passed to wrapDittoWithDrizzle:
                \* whether the config has one, and its entries in key order
    opts,       \* the options of observe(): emitInitialValue and debounce
    observer,   \* the closure of observe(): isActive, isFirstCallback, the
                \* store observer it holds, debounceTimer (0 for null, else
                \* the timer set at that delivery), the timers that are
                \* pending, and how often the store observer was cancelled
    delivered,  \* the results the store has passed to the observer callback
    calls,      \* the invocations of the callback given to observe(): the
                \* rows, the delivery they stem from, and isActive then
    handles     \* per store handle, 0 the root store and t the handle of the
                \* t-th store transaction, the statements executed on it

\* the variables of a prepared query and of a transaction
queryVars == <<fields, isResponseInArrayMode, returned>>
txVars == <<transactionFn, dittoTx, settled, config, nested>>

\* the variables a single call of an operation leaves alone: those of the
\* sessions in flight and of an observation
idleVars == <<sessions, handles, opts, observer, delivered, calls>>

\* the variables of an observation
obsVars == <<opts, observer, delivered, calls>>

vars == <<op, sql, params, index, pc, result, executed, fields,
          isResponseInArrayMode, stored, returned, transactionFn, dittoTx, settled,
          config, nested, sessions, handles, schema, opts, observer, delivered, calls>>

(***************************************************************************)
(* Bounds of the model.                                                    *)
(***************************************************************************)
MaxParams == 6          \* longest parameter array
MaxMixed == 2           \* longest parameter array drawn from every mix of Values
MaxPlaceholders == 4    \* most placeholders in a generated WHERE clause
MaxRows == 3            \* most VALUES tuples in a generated INSERT
MaxItems == 2           \* most documents the store returns to a query
MaxStatements == 2      \* most statements a transaction function runs
MaxNested == 1          \* most nested transactions a transaction function attempts
MaxTransactions == 2    \* most transactions in flight at once
MaxIssued == 2          \* most statements issued through one session
MaxTables == 2          \* most entries of a schema
MaxColumns == 1         \* most properties of a schema entry
MaxDeliveries == 3      \* most results the store delivers to one observer
MaxCancels == 2         \* most calls of cancel() on one observer

(***************************************************************************)
(* Characters.                                                             *)
(***************************************************************************)
LowerAlpha == "abcdefghijklmnopqrstuvwxyz"
UpperAlpha == "ABCDEFGHIJKLMNOPQRSTUVWXYZ"
DigitChars == "0123456789"

CharsOf(s) == { SubSeq(s, i, i) : i \in 1..Len(s) }

WordChars == CharsOf(LowerAlpha) \cup CharsOf(UpperAlpha) \cup CharsOf(DigitChars) \cup {"_"}
SpaceChars == {" ", "\n", "\t"}

IsWordChar(c) == c \in WordChars
IsSpace(c) == c \in SpaceChars

UpperChar(c) ==
    IF c \in CharsOf(LowerAlpha)
    THEN LET i == CHOOSE j \in 1..Len(LowerAlpha) : SubSeq(LowerAlpha, j, j) = c
         IN  SubSeq(UpperAlpha, i, i)
    ELSE c

\* s.toUpperCase(), computed on the two halves of s
RECURSIVE ToUpperCase(_)
ToUpperCase(s) ==
    IF Len(s) <= 1 THEN (IF s = "" THEN "" ELSE UpperChar(s))
    ELSE ToUpperCase(SubSeq(s, 1, Len(s) \div 2))
             \o ToUpperCase(SubSeq(s, Len(s) \div 2 + 1, Len(s)))

\* s.includes(sub)
Includes(s, sub) ==
    \E i \in 1..(Len(s) - Len(sub) + 1) : SubSeq(s, i, i + Len(sub) - 1) = sub

\* number of occurrences of the character c in s
CountChar(s, c) == Cardinality({ i \in 1..Len(s) : SubSeq(s, i, i) = c })

(***************************************************************************)
(* Lexical structure of statement text.                                    *)
(***************************************************************************)
\* length of the longest prefix of s made of characters of the set cs
RECURSIVE PrefixLen(_, _)
PrefixLen(s, cs) ==
    IF s = "" \/ Head(s) \notin cs THEN 0 ELSE 1 + PrefixLen(Tail(s), cs)

\* position of the first occurrence of the character c in s, 0 if none
FirstOf(positions) ==
    IF positions = {} THEN 0 ELSE CHOOSE i \in positions : \A j \in positions : i <= j

IndexOf(s, c) == FirstOf({ i \in 1..Len(s) : SubSeq(s, i, i) = c })

CloseQuote(c) == IF c = "[" THEN "]" ELSE c
OpenQuotes == {"\"", "["}

\* length of the token that starts s: a word, a whitespace run, a quoted or
\* bracketed identifier with its delimiters, or one other character
TokenLen(s) ==
    LET c == Head(s) IN
    IF IsWordChar(c) THEN PrefixLen(s, WordChars)
    ELSE IF IsSpace(c) THEN PrefixLen(s, SpaceChars)
    ELSE IF c \in OpenQuotes
         THEN LET p == IndexOf(Tail(s), CloseQuote(c)) IN IF p = 0 THEN 1 ELSE p + 1
    ELSE 1

RECURSIVE Lex(_)
Lex(s) ==
    IF s = "" THEN << >>
    ELSE LET n == TokenLen(s)
         IN  <<SubSeq(s, 1, n)>> \o Lex(SubSeq(s, n + 1, Len(s)))

RECURSIVE Join(_)
Join(toks) == IF toks = << >> THEN "" ELSE Head(toks) \o Join(Tail(toks))

IsSpaceToken(t) == IsSpace(Head(t))
IsWordToken(t) == IsWordChar(Head(t))
IsQuotedToken(t) ==
    /\ Len(t) >= 2
    /\ Head(t) \in OpenQuotes
    /\ SubSeq(t, Len(t), Len(t)) = CloseQuote(Head(t))
IsIdentToken(t) == IsWordToken(t) \/ IsQuotedToken(t)

\* identifier text with the paired quote or bracket characters stripped
StripQuotes(t) == IF IsQuotedToken(t) THEN SubSeq(t, 2, Len(t) - 1) ELSE t

\* the tokens that are not whitespace
Significant(toks) == SelectSeq(toks, LAMBDA t : ~IsSpaceToken(t))

(***************************************************************************)
(* 4.1 Statement classifier: the leading keyword sequence decides.         *)
(***************************************************************************)
Keyword(words, i) == IF i <= Len(words) THEN ToUpperCase(words[i]) ELSE ""

\* the kind named by the first three keywords k1, k2, k3 of a statement
KindOfKeywords(k1, k2, k3) ==
        IF k1 = "SELECT" THEN "Select"
        ELSE IF k1 = "INSERT" /\ k2 = "INTO" THEN "Insert"
        ELSE IF k1 = "UPDATE" THEN "Update"
        ELSE IF k1 = "DELETE" /\ k2 = "FROM" THEN "Delete"
        ELSE IF k1 = "CREATE" /\ (k2 = "INDEX" \/ (k2 = "UNIQUE" /\ k3 = "INDEX"))
             THEN "CreateIndex"
        ELSE IF k1 = "DROP" /\ k2 = "INDEX" THEN "DropIndex"
        ELSE "Unsupported"

KindOfWords(words) ==
    KindOfKeywords(Keyword(words, 1), Keyword(words, 2), Keyword(words, 3))

StatementKind(text) == KindOfWords(Significant(Lex(text)))

\* the keyword named by the diagnostic of an unsupported statement
NormalizedKeyword(text) == Keyword(Significant(Lex(text)), 1)

(***************************************************************************)
(* Values, argument maps, results and errors.                              *)
(***************************************************************************)
NullValue == "<null>"
UndefinedValue == "<undefined>"

NoArgs == [k \in {} |-> ""]

\* a TranslationResult { query, args }; hasArgs is FALSE when args is undefined
Translated(query, hasArgs, args) ==
    [ok |-> TRUE, query |-> query, hasArgs |-> hasArgs, args |-> args,
     name |-> "", message |-> ""]

\* a thrown error: its class name and its message
Thrown(name, message) ==
    [ok |-> FALSE, query |-> "", hasArgs |-> FALSE, args |-> NoArgs,
     name |-> name, message |-> message]

\* the result of an operation that has not run
Pending == Thrown("", "")

\* the error worded as an unsupported statement
DittoUnsupportedOperationError_Statement(operation, suggestion) ==
    Thrown("DittoUnsupportedOperationError", "Unsupported SQL statement")

\* new DittoUnsupportedOperationError(operation, suggestion); an absent
\* suggestion is the empty string
DittoUnsupportedOperationError(operation, suggestion) ==
    Thrown("DittoUnsupportedOperationError",
           "Unsupported SQL operation: " \o operation
               \o (IF suggestion # "" THEN ". " \o suggestion ELSE ""))

MalformedStatement(message) == Thrown("Error", message)

ArityMismatch(placeholders, supplied) ==
    Thrown("Error", "Parameter count mismatch: statement has "
                        \o ToString(placeholders) \o " placeholders, got "
                        \o ToString(supplied) \o " parameters")

\* The arity check.  A statement with more placeholders than parameters is
\* rejected; parameters beyond the last placeholder are accepted and ignored
\* (sqlToDql('UPDATE users SET', ['value']) returns a result).
TooFewParameters(n, parameters) == n > Len(parameters)

(***************************************************************************)
(* 4.2 Identifier and placeholder rewriter (SELECT / UPDATE / DELETE).     *)
(***************************************************************************)
ArgName(k) == "arg" \o ToString(k)

\* numbering that starts at :arg0
NamedPlaceholder_ZeroBased(k) == ":" \o ArgName(k - 1)

\* the named placeholder that replaces the k-th `?`
NamedPlaceholder(k) == ":" \o ArgName(k)

\* an empty argument object returned in place of undefined
HasArguments_Always(n) == TRUE

\* args is returned only when at least one placeholder was replaced
HasArguments(n) == n > 0

\* a rewrite of every identifier that ends in `id`
MapIdentifier_Suffix(name) ==
    IF Len(name) >= 2 /\ SubSeq(name, Len(name) - 1, Len(name)) = "id"
    THEN SubSeq(name, 1, Len(name) - 2) \o "_id"
    ELSE name

\* reserved-name rewrite of one identifier
MapIdentifier(name) == IF name = "id" THEN "_id" ELSE name

NumPlaceholders(toks) == Len(SelectSeq(toks, LAMBDA t : t = "?"))

\* { arg1: parameters[0], ..., argn: parameters[n-1] }
ArgumentMap(n, parameters) ==
    [key \in { ArgName(k) : k \in 1..n } |->
        parameters[CHOOSE k \in 1..n : ArgName(k) = key]]

(***************************************************************************)
(* Rewrite of a token list.  k placeholders have been replaced so far.     *)
(* mode follows the clauses of an UPDATE: "pre" before SET, "target" where *)
(* an assignment target is expected, "value" to the right of `=`, "where"  *)
(* after WHERE; it is "none" in SELECT and DELETE.  depth is the nesting   *)
(* of parentheses.  An identifier in mode "target" is the left-hand side   *)
(* of a SET assignment and is exempt from the id -> _id rewrite.           *)
(***************************************************************************)
NextMode(t, mode, depth) ==
    IF IsWordToken(t) /\ ToUpperCase(t) = "SET" /\ mode = "pre" THEN "target"
    ELSE IF IsWordToken(t) /\ ToUpperCase(t) = "WHERE" /\ mode \in {"target", "value"}
            /\ depth = 0 THEN "where"
    ELSE IF t = "=" /\ mode = "target" THEN "value"
    ELSE IF t = "," /\ mode = "value" /\ depth = 0 THEN "target"
    ELSE mode

NextDepth(t, depth) ==
    IF t = "(" THEN depth + 1
    ELSE IF t = ")" /\ depth > 0 THEN depth - 1
    ELSE depth

\* a rewrite that does not exempt the targets of SET
RewriteToken_AnyMode(t, k, mode) ==
    IF t = "?" THEN NamedPlaceholder(k + 1)
    ELSE IF IsIdentToken(t) THEN MapIdentifier(StripQuotes(t))
    ELSE t

RewriteToken(t, k, mode) ==
    IF t = "?" THEN NamedPlaceholder(k + 1)
    ELSE IF IsIdentToken(t)
         THEN IF mode = "target" THEN StripQuotes(t) ELSE MapIdentifier(StripQuotes(t))
    ELSE t

RECURSIVE RewriteTokens(_, _, _, _)
RewriteTokens(toks, k, mode, depth) ==
    IF toks = << >> THEN << >>
    ELSE LET t == Head(toks)
         IN  <<RewriteToken(t, k, mode)>>
                 \o RewriteTokens(Tail(toks), IF t = "?" THEN k + 1 ELSE k,
                                  NextMode(t, mode, depth), NextDepth(t, depth))

\* a result whose query text carries the first parameter value
RewriteResult_Inlined(kind, toks, n, parameters) ==
    IF TooFewParameters(n, parameters) THEN ArityMismatch(n, Len(parameters))
    ELSE Translated(Join(RewriteTokens(toks, 0, IF kind = "Update" THEN "pre" ELSE "none", 0))
                        \o (IF n > 0 THEN " /* " \o parameters[1] \o " */" ELSE ""),
                    HasArguments(n),
                    ArgumentMap(n, parameters))

\* SELECT, UPDATE and DELETE share the rewrite of the full statement
\* the result for the token list toks with its n placeholders
RewriteResult(kind, toks, n, parameters) ==
    IF TooFewParameters(n, parameters) THEN ArityMismatch(n, Len(parameters))
    ELSE Translated(Join(RewriteTokens(toks, 0, IF kind = "Update" THEN "pre" ELSE "none", 0)),
                    HasArguments(n),
                    ArgumentMap(n, parameters))

RewriteLexed(kind, toks, parameters) ==
    RewriteResult(kind, toks, NumPlaceholders(toks), parameters)

\* the clause of the token list that DQL does not have: "JOIN", "UNION", or
\* "" when there is none
UnsupportedClause(toks) ==
    IF \E i \in 1..Len(toks) : IsWordToken(toks[i]) /\ ToUpperCase(toks[i]) = "JOIN"
    THEN "JOIN"
    ELSE IF \E i \in 1..Len(toks) : IsWordToken(toks[i]) /\ ToUpperCase(toks[i]) = "UNION"
    THEN "UNION"
    ELSE ""

\* the workaround suggested for an unsupported clause
ClauseSuggestion(clause) ==
    IF clause = "JOIN" THEN "Fetch related data with separate queries"
    ELSE "Execute separate queries"

\* a statement with a JOIN or a UNION is rejected; a parenthesised SELECT
\* inside a statement is rewritten like the rest of the text
\* (sqlToDql('SELECT name, (SELECT COUNT(*) FROM orders WHERE user_id =
\* users.id) AS order_count FROM users', []) returns a query)
TranslateLexed(kind, toks, parameters) ==
    IF UnsupportedClause(toks) # ""
    THEN DittoUnsupportedOperationError(UnsupportedClause(toks),
                                        ClauseSuggestion(UnsupportedClause(toks)))
    ELSE RewriteLexed(kind, toks, parameters)

\* SELECT, UPDATE and DELETE share the rewrite of the full statement
translateStatement(kind, text, parameters) == TranslateLexed(kind, Lex(text), parameters)


(***************************************************************************)
(* 4.3 INSERT document builder.  Parsing works on the significant tokens   *)
(* w of the statement; a parse yields ok = FALSE when the text does not    *)
(* have the shape INSERT INTO <table> (<cols>) VALUES (?, ...), (?, ...).  *)
(***************************************************************************)
ParseFailure == [ok |-> FALSE, items |-> << >>, next |-> 0]

IsListItem(t, what) == IF what = "column" THEN IsIdentToken(t) ELSE t = "?"

\* item { "," item } ")" from w[i] on
RECURSIVE ParseItems(_, _, _)
ParseItems(w, i, what) ==
    IF i + 1 > Len(w) \/ ~IsListItem(w[i], what) THEN ParseFailure
    ELSE IF w[i + 1] = ")" THEN [ok |-> TRUE, items |-> <<w[i]>>, next |-> i + 2]
    ELSE IF w[i + 1] = ","
         THEN LET r == ParseItems(w, i + 2, what)
              IN  IF r.ok THEN [r EXCEPT !.items = <<w[i]>> \o @] ELSE ParseFailure
    ELSE ParseFailure

\* "(" item { "," item } ")" from w[i] on
ParseList(w, i, what) ==
    IF i > Len(w) \/ w[i] # "(" THEN ParseFailure ELSE ParseItems(w, i + 1, what)

\* a VALUES list accepted on its first tuple, whatever its length
ParseTuples_FirstOnly(w, i, ncols) ==
    IF ParseList(w, i, "placeholder").ok THEN 1 ELSE 0

\* number of VALUES tuples from w[i] to the end of the statement, each with
\* exactly ncols placeholders; 0 when the VALUES list does not match
RECURSIVE ParseTuples(_, _, _)
ParseTuples(w, i, ncols) ==
    LET r == ParseList(w, i, "placeholder")
    IN  IF ~r.ok \/ Len(r.items) # ncols THEN 0
        ELSE IF r.next > Len(w) THEN 1
        ELSE IF w[r.next] = ","
             THEN LET more == ParseTuples(w, r.next + 1, ncols)
                  IN  IF more = 0 THEN 0 ELSE more + 1
        ELSE 0

\* the parse of the words w, given the parsed column list and the number of
\* VALUES tuples
InsertParse(w, cols, rows) ==
    IF Len(w) >= 3 /\ IsIdentToken(w[3]) /\ cols.ok /\ rows > 0
    THEN [ok |-> TRUE, table |-> StripQuotes(w[3]),
          columns |-> [i \in 1..Len(cols.items) |-> StripQuotes(cols.items[i])],
          rows |-> rows]
    ELSE [ok |-> FALSE, table |-> "", columns |-> << >>, rows |-> 0]

ParseValues(w, cols) ==
    InsertParse(w, cols,
                IF cols.ok /\ Keyword(w, cols.next) = "VALUES"
                THEN ParseTuples(w, cols.next + 1, Len(cols.items))
                ELSE 0)

ParseInsertWords(w) == ParseValues(w, ParseList(w, 4, "column"))

parseInsert(text) == ParseInsertWords(Significant(Lex(text)))

\* name of the j-th document of an INSERT with the given number of rows
DocName(j, rows) == IF rows = 1 THEN "doc" ELSE "doc" \o ToString(j)

\* a document that keeps the column `id` under the key `id`
Document_KeepsId(columns, parameters, j) ==
    [key \in { columns[i] : i \in 1..Len(columns) } |->
        parameters[(j - 1) * Len(columns)
                     + CHOOSE i \in 1..Len(columns) :
                          /\ columns[i] = key
                          /\ \A i2 \in 1..Len(columns) : columns[i2] = key => i2 <= i]]

\* a document that reads every tuple from the start of the parameter array
Document_FirstTuple(columns, parameters, j) ==
    [key \in { MapIdentifier(columns[i]) : i \in 1..Len(columns) } |->
        parameters[CHOOSE i \in 1..Len(columns) :
                      /\ MapIdentifier(columns[i]) = key
                      /\ \A i2 \in 1..Len(columns) :
                            MapIdentifier(columns[i2]) = key => i2 <= i]]

\* the j-th document: the columns zipped with the parameters of the j-th
\* tuple, the column `id` stored under `_id`; a later column of the same
\* name overwrites an earlier one
Document(columns, parameters, j) ==
    LET c == Len(columns)
        last(key) == CHOOSE i \in 1..c :
                        /\ MapIdentifier(columns[i]) = key
                        /\ \A i2 \in 1..c : MapIdentifier(columns[i2]) = key => i2 <= i
    IN  [key \in { MapIdentifier(columns[i]) : i \in 1..c } |->
            parameters[(j - 1) * c + last(key)]]

\* (:doc) or (:doc1), (:doc2), ...
RECURSIVE DocumentsClause(_, _)
DocumentsClause(j, rows) ==
    "(:" \o DocName(j, rows) \o ")"
        \o (IF j < rows THEN ", " \o DocumentsClause(j + 1, rows) ELSE "")

\* { doc: ... } or { doc1: ..., doc2: ..., ... }
Documents(columns, parameters, rows) ==
    [key \in { DocName(j, rows) : j \in 1..rows } |->
        Document(columns, parameters, CHOOSE j \in 1..rows : DocName(j, rows) = key)]

\* the result for the parsed statement p, which needs n parameters
InsertResult(p, n, parameters) ==
    IF ~p.ok THEN MalformedStatement("Unable to parse INSERT statement")
    ELSE IF TooFewParameters(n, parameters) THEN ArityMismatch(n, Len(parameters))
    ELSE Translated("INSERT INTO " \o p.table \o " DOCUMENTS " \o DocumentsClause(1, p.rows),
                    TRUE,
                    Documents(p.columns, parameters, p.rows))

InsertParsed(p, parameters) == InsertResult(p, p.rows * Len(p.columns), parameters)

translateInsert(text, parameters) == InsertParsed(parseInsert(text), parameters)


(***************************************************************************)
(* 4.5 CREATE INDEX / DROP INDEX.                                          *)
(***************************************************************************)
\* position in w of the ")" that closes the "(" at w[i - 1]; 0 if none
RECURSIVE MatchParen(_, _, _)
MatchParen(w, i, depth) ==
    IF i > Len(w) THEN 0
    ELSE IF w[i] = ")" THEN (IF depth = 0 THEN i ELSE MatchParen(w, i + 1, depth - 1))
    ELSE IF w[i] = "(" THEN MatchParen(w, i + 1, depth + 1)
    ELSE MatchParen(w, i + 1, depth)

\* a column list taken as one column whatever it holds
HasTopLevelComma_Never(g, depth) == FALSE

\* a comma of the column list that is not nested in inner parentheses
RECURSIVE HasTopLevelComma(_, _)
HasTopLevelComma(g, depth) ==
    IF g = << >> THEN FALSE
    ELSE IF Head(g) = "," /\ depth = 0 THEN TRUE
    ELSE HasTopLevelComma(Tail(g), NextDepth(Head(g), depth))

\* ident { "." ident }: a bare identifier or a dotted field path
RECURSIVE IsColumnPath(_)
IsColumnPath(g) ==
    /\ g # << >>
    /\ IsIdentToken(Head(g))
    /\ \/ Len(g) = 1
       \/ Len(g) >= 3 /\ g[2] = "." /\ IsColumnPath(SubSeq(g, 3, Len(g)))

\* position in w of the index name: after CREATE INDEX [IF NOT EXISTS]
IndexNameAt(w) ==
    IF Keyword(w, 3) = "IF" /\ Keyword(w, 4) = "NOT" /\ Keyword(w, 5) = "EXISTS"
    THEN 6 ELSE 3

\* <name> ON <table> "(" from w[j] on
IndexHeaderOk(w, j) ==
    /\ Len(w) >= j + 3
    /\ IsIdentToken(w[j])
    /\ Keyword(w, j + 1) = "ON"
    /\ IsIdentToken(w[j + 2])
    /\ w[j + 3] = "("

\* the column group between w[j + 3] and its closing parenthesis at w[close],
\* and the words after it
IndexGroup(w, j, close) ==
    [ok |-> close > 0,
     group |-> IF close > 0 THEN SubSeq(w, j + 4, close - 1) ELSE << >>,
     trailing |-> IF close > 0 THEN SubSeq(w, close + 1, Len(w)) ELSE << >>]

ParseIndexFrom(w, j) ==
    IndexGroup(w, j, IF IndexHeaderOk(w, j) THEN MatchParen(w, j + 4, 0) ELSE 0)

ParseIndexWords(w) == ParseIndexFrom(w, IndexNameAt(w))

parseCreateIndex(text) == ParseIndexWords(Significant(Lex(text)))

\* the statement text with identifier quotes stripped and, when the column
\* list is the single identifier `id`, that column rewritten to `_id`
RECURSIVE RewriteIndexTokens(_, _, _)
RewriteIndexTokens(toks, depth, single) ==
    IF toks = << >> THEN << >>
    ELSE LET t == Head(toks)
             out == IF ~IsIdentToken(t) THEN t
                    ELSE IF depth > 0 /\ single THEN MapIdentifier(StripQuotes(t))
                    ELSE StripQuotes(t)
         IN  <<out>> \o RewriteIndexTokens(Tail(toks), NextDepth(t, depth), single)

IndexParseError == MalformedStatement("Unable to parse CREATE INDEX statement")

\* the checks on a CREATE INDEX without UNIQUE, given its parse p
CreateIndexResult(toks, p) ==
    IF ~p.ok THEN IndexParseError
    ELSE IF HasTopLevelComma(p.group, 0)
    THEN DittoUnsupportedOperationError("Composite INDEX", "Use single-field indexes instead")
    ELSE IF p.trailing # << >> /\ ToUpperCase(Head(p.trailing)) = "WHERE"
    THEN DittoUnsupportedOperationError("Partial INDEX", "No WHERE clause support in indexes")
    ELSE IF ~IsColumnPath(p.group) \/ p.trailing # << >> THEN IndexParseError
    ELSE Translated(Join(RewriteIndexTokens(toks, 0, Len(p.group) = 1)), FALSE, NoArgs)

CreateIndexLexed(toks, w) ==
    IF Keyword(w, 2) = "UNIQUE"
    THEN DittoUnsupportedOperationError("UNIQUE INDEX", "Only simple indexes are supported")
    ELSE CreateIndexResult(toks, ParseIndexWords(w))

CreateIndexTokens(toks) == CreateIndexLexed(toks, Significant(toks))

translateCreateIndex(text) == CreateIndexTokens(Lex(text))

translateDropIndex(text) ==
    DittoUnsupportedOperationError("DROP INDEX", "Indexes cannot be dropped once created")

(***************************************************************************)
(* sqlToDql(sql, params): classify, then dispatch.                         *)
(***************************************************************************)
Dispatch(kind, text, parameters) ==
    IF kind = "Unsupported"
    THEN DittoUnsupportedOperationError(NormalizedKeyword(text), "")
    ELSE IF kind = "CreateIndex" THEN translateCreateIndex(text)
    ELSE IF kind = "DropIndex" THEN translateDropIndex(text)
    ELSE IF kind = "Insert" THEN translateInsert(text, parameters)
    ELSE translateStatement(kind, text, parameters)

sqlToDql(text, parameters) == Dispatch(StatementKind(text), text, parameters)


(***************************************************************************)
(* Driver operations that call sqlToDql.                                   *)
(***************************************************************************)
\* the call store.execute(query, args) made with a translation result
StoreCall(dqlQuery) ==
    [query |-> dqlQuery.query, hasArgs |-> dqlQuery.hasArgs, args |-> dqlQuery.args]

\* the default index name built from the mapped column
createIndexSql_MappedName(tableName, columnName, indexName) ==
    "CREATE INDEX IF NOT EXISTS "
        \o (IF indexName # "" THEN indexName
            ELSE tableName \o "_" \o (IF columnName = "id" THEN "_id" ELSE columnName) \o "_idx")
        \o " ON " \o tableName
        \o " (" \o (IF columnName = "id" THEN "_id" ELSE columnName) \o ")"

\* the SQL text createIndex(tableName, columnName, indexName) builds; an
\* absent indexName is the empty string
createIndexSql(tableName, columnName, indexName) ==
    LET mappedColumn == IF columnName = "id" THEN "_id" ELSE columnName
        name == IF indexName # "" THEN indexName
                ELSE tableName \o "_" \o columnName \o "_idx"
    IN  "CREATE INDEX IF NOT EXISTS " \o name \o " ON " \o tableName
            \o " (" \o mappedColumn \o ")"

(***************************************************************************)
(* Result mapping: DittoSQLitePreparedQuery.all / get / values.  A         *)
(* document is a function from its keys to its values.  A returned row is  *)
(* a record: isArray tells a JavaScript array (value is a sequence) from   *)
(* an object (value is a function from keys to values).  Every field path  *)
(* has one segment, and a column decoder returns the driver value as is.   *)
(***************************************************************************)
\* this.fields is undefined (Drizzle never passes an empty field list)
NoFields == << >>

Row(isArray, value) == [isArray |-> isArray, value |-> value]

\* key.match(/^\(\$\d+\)$/)
IsAggregateKey(key) ==
    /\ Len(key) >= 4
    /\ SubSeq(key, 1, 2) = "($"
    /\ SubSeq(key, Len(key), Len(key)) = ")"
    /\ PrefixLen(SubSeq(key, 3, Len(key) - 1), CharsOf(DigitChars)) = Len(key) - 3

\* the key numbered from 0
aggregateKey_ZeroBased(position) == "($" \o ToString(position - 1) \o ")"

\* `($${index + 1})` for the 1-based position
aggregateKey(position) == "($" \o ToString(position) \o ")"

\* obj[name]
Lookup(obj, name) == IF name \in DOMAIN obj THEN obj[name] ELSE UndefinedValue

\* mapDqlResultToSql(item.value): every key copied, `_id` renamed to `id`
mapDqlResultToSql(value) ==
    [key \in { IF k = "_id" THEN "id" ELSE k : k \in DOMAIN value } |->
        IF key = "id" /\ "_id" \in DOMAIN value THEN value["_id"] ELSE value[key]]

\* values(): the first item has a key of the form ($n)
isAggregateQuery(queryResult) ==
    Len(queryResult) > 0 /\ \E key \in DOMAIN queryResult[1] : IsAggregateKey(key)

\* values(): the loop that copies the non-aggregate keys by name
CopyPlainKeys(resultValues) ==
    [key \in { k \in DOMAIN resultValues : ~IsAggregateKey(k) } |-> resultValues[key]]

\* values(): this.fields.forEach from the 1-based position on
RECURSIVE MapFields(_, _, _, _)
MapFields(columns, position, resultValues, mappedResult) ==
    IF position > Len(columns) THEN mappedResult
    ELSE MapFields(columns, position + 1, resultValues,
            IF columns[position] \in DOMAIN mappedResult THEN mappedResult
            ELSE IF aggregateKey(position) \in DOMAIN resultValues
                 THEN mappedResult @@ (columns[position] :> resultValues[aggregateKey(position)])
                 ELSE mappedResult)

\* values(): one row of an aggregate query
AggregateRow(columns, resultValues) ==
    IF columns # NoFields
    THEN Row(FALSE, MapFields(columns, 1, resultValues, CopyPlainKeys(resultValues)))
    ELSE Row(FALSE, resultValues)

\* values(): one row in array mode
ArrayRow(columns, obj) ==
    Row(TRUE, [k \in 1..Len(columns) |-> Lookup(obj, columns[k])])

\* the rows values() returns for the store's result
values(columns, arrayMode, queryResult) ==
    IF isAggregateQuery(queryResult)
    THEN [i \in 1..Len(queryResult) |-> AggregateRow(columns, queryResult[i])]
    ELSE IF arrayMode /\ columns # NoFields
    THEN [i \in 1..Len(queryResult) |-> ArrayRow(columns, mapDqlResultToSql(queryResult[i]))]
    ELSE [i \in 1..Len(queryResult) |-> Row(FALSE, mapDqlResultToSql(queryResult[i]))]

\* row[columnIndex] for the 1-based position k: an object has no such key
RawValue(row, k) ==
    IF row.isArray /\ k \in DOMAIN row.value THEN row.value[k] ELSE UndefinedValue

\* mapResultRow(columns, row, undefined): a later column of the same name
\* overwrites an earlier one
mapResultRow(columns, row) ==
    [name \in { columns[k] : k \in 1..Len(columns) } |->
        RawValue(row, CHOOSE k \in 1..Len(columns) :
                        /\ columns[k] = name
                        /\ \A k2 \in 1..Len(columns) : columns[k2] = name => k2 <= k)]

\* all() with a field list, from the rows values() returned
allMapped(columns, valueRows) ==
    IF /\ Len(valueRows) > 0
       /\ ~valueRows[1].isArray
       /\ columns[1] \in DOMAIN valueRows[1].value
    THEN valueRows
    ELSE [i \in 1..Len(valueRows) |-> Row(FALSE, mapResultRow(columns, valueRows[i]))]

\* all() without a field list handing out the documents as they are
all_RawItems(columns, arrayMode, queryResult) ==
    IF columns = NoFields
    THEN [i \in 1..Len(queryResult) |-> Row(FALSE, queryResult[i])]
    ELSE allMapped(columns, values(columns, arrayMode, queryResult))

\* the rows all() returns for the store's result
all(columns, arrayMode, queryResult) ==
    IF columns = NoFields
    THEN [i \in 1..Len(queryResult) |-> Row(FALSE, mapDqlResultToSql(queryResult[i]))]
    ELSE allMapped(columns, values(columns, arrayMode, queryResult))

\* get() with a field list, from the rows values() returned
getMapped(columns, valueRows) ==
    IF Len(valueRows) = 0 THEN << >>
    ELSE <<Row(FALSE, mapResultRow(columns, valueRows[1]))>>

\* get() handing out the last item instead of the first
get_LastItem(columns, arrayMode, queryResult) ==
    IF columns = NoFields
    THEN IF Len(queryResult) > 0
         THEN <<Row(FALSE, mapDqlResultToSql(queryResult[Len(queryResult)]))>>
         ELSE << >>
    ELSE getMapped(columns, values(columns, arrayMode, queryResult))

\* what get() returns for the store's result: one row, or none for undefined
get(columns, arrayMode, queryResult) ==
    IF columns = NoFields
    THEN IF Len(queryResult) > 0 THEN <<Row(FALSE, mapDqlResultToSql(queryResult[1]))>> ELSE << >>
    ELSE getMapped(columns, values(columns, arrayMode, queryResult))

\* the query get() sends: without a field list, LIMIT 1 is appended unless
\* the text already contains LIMIT
getQuery(columns, dqlQuery) ==
    IF columns = NoFields /\ ~Includes(ToUpperCase(dqlQuery.query), "LIMIT")
    THEN [dqlQuery EXCEPT !.query = @ \o " LIMIT 1"]
    ELSE dqlQuery

\* the documents of the args of a translated INSERT, in the order of its
\* DOCUMENTS clause
InsertedDocuments(dqlQuery) ==
    [j \in 1..Cardinality(DOMAIN dqlQuery.args) |->
        dqlQuery.args[DocName(j, Cardinality(DOMAIN dqlQuery.args))]]

\* the store's documents after store.execute of a translated statement: an
\* INSERT ... DOCUMENTS adds its documents, any other statement is not
\* followed
StoreAfter(documents, dqlQuery) ==
    IF Includes(dqlQuery.query, " DOCUMENTS ")
    THEN documents \o InsertedDocuments(dqlQuery)
    ELSE documents

(***************************************************************************)
(* DittoSQLiteSession.transaction.  The store runs the callback it is      *)
(* given inside a transaction: it commits when the callback resolves and   *)
(* rolls back when it rejects.                                             *)
(***************************************************************************)
Resolved(value) == [state |-> "resolved", value |-> value]
Rejected(error) == [state |-> "rejected", value |-> error]
NotSettled == [state |-> "pending", value |-> ""]

\* transactionFn throws after none of its statements
NoThrow == -1

NoFn == [statements |-> << >>, throwAfter |-> NoThrow, value |-> ""]
NoTx == [state |-> "none", step |-> 0, error |-> "", executed |-> << >>, documents |-> << >>,
         isReadOnly |-> FALSE]

\* DittoSQLiteSession.transaction: the isReadOnly option handed to
\* dittoStore.transaction; accessMode defaults to 'read write' and no other
\* key of the config is read; "absent" stands for a key the config lacks
isReadOnly(cfg) ==
    (IF cfg.accessMode = "absent" THEN "read write" ELSE cfg.accessMode) = "read only"

\* a session of a transaction that runs the function it is given and lets
\* it execute on the enclosing store transaction
baseSessionTransaction_Runs(tx) ==
    [thrown |-> "", invoked |-> TRUE,
     store |-> [tx EXCEPT !.executed = Append(@, [query |-> "BEGIN", hasArgs |-> FALSE,
                                                   args |-> NoArgs])]]

\* DittoSQLiteBaseSession.transaction(_transaction, _config): its body is
\* one throw statement; the function is not invoked and the session's
\* store, the enclosing store transaction, is not used
baseSessionTransaction(tx) ==
    [thrown |-> "Nested transactions are not supported", invoked |-> FALSE, store |-> tx]

\* the error transactionFn throws by itself
FnError == "Rollback test"

\* how transactionFn(tx) settles once it has run: with the error of a
\* statement that failed, with its own error, or with its value
FnOutcome(fn, tx) ==
    IF tx.error # "" THEN Rejected(tx.error)
    ELSE IF fn.throwAfter = tx.step THEN Rejected(FnError)
    ELSE Resolved(fn.value)

\* a callback that turns an error of transactionFn into a normal return
transactionCallback_Swallows(outcome) ==
    IF outcome.state = "rejected" THEN Resolved("") ELSE outcome

\* the callback handed to dittoStore.transaction: the result of
\* transactionFn is returned, its error is rethrown
transactionCallback(outcome) == outcome

\* the store's documents once its transaction has ended
StoreAfterTransaction(documents, tx, outcome) ==
    IF outcome.state = "resolved" THEN tx.documents ELSE documents

(***************************************************************************)
(* DittoSQLiteDatabase.observe.  The closure holds isActive, the store     *)
(* observer, debounceTimer and isFirstCallback.  A timer is named by the   *)
(* number of the delivery that set it; clearTimeout takes it out of the    *)
(* pending timers, and clearing a timer that has fired changes nothing.    *)
(***************************************************************************)
DefaultOptions == [emitInitialValue |-> TRUE, debounce |-> 0]

\* before observe() is called
NoObserver ==
    [isActive |-> FALSE, isFirstCallback |-> TRUE, storeObserver |-> "none",
     debounceTimer |-> 0, timers |-> {}, storeCancels |-> 0, cancels |-> 0]

\* the rows handed to the callback: result.items.map(item =>
\* mapDqlResultToSql(item.value))
observeRows(queryResult) ==
    [i \in 1..Len(queryResult) |-> Row(FALSE, mapDqlResultToSql(queryResult[i]))]

\* one invocation of the callback given to observe()
Call(o, queryResult, n) ==
    [rows |-> observeRows(queryResult), delivery |-> n, isActive |-> o.isActive]

\* a store callback that hands on the first result whatever the options say
storeCallback_NeverSkips(o, cs, options, queryResult, n) ==
    IF ~o.isActive THEN <<o, cs>>
    ELSE IF options.debounce > 0
    THEN <<[o EXCEPT !.isFirstCallback = FALSE,
                     !.timers = (@ \ {o.debounceTimer}) \cup {n},
                     !.debounceTimer = n], cs>>
    ELSE <<[o EXCEPT !.isFirstCallback = FALSE], Append(cs, Call(o, queryResult, n))>>

\* a store callback that sets a timer without clearing the one before
storeCallback_KeepsTimer(o, cs, options, queryResult, n) ==
    IF ~o.isActive THEN <<o, cs>>
    ELSE IF o.isFirstCallback /\ ~options.emitInitialValue
    THEN <<[o EXCEPT !.isFirstCallback = FALSE], cs>>
    ELSE IF options.debounce > 0
    THEN <<[o EXCEPT !.isFirstCallback = FALSE,
                     !.timers = @ \cup {n},
                     !.debounceTimer = n], cs>>
    ELSE <<[o EXCEPT !.isFirstCallback = FALSE], Append(cs, Call(o, queryResult, n))>>

\* a store callback that lets a pending timer run and drops the result that
\* arrives meanwhile
storeCallback_IgnoresWhilePending(o, cs, options, queryResult, n) ==
    IF ~o.isActive THEN <<o, cs>>
    ELSE IF o.isFirstCallback /\ ~options.emitInitialValue
    THEN <<[o EXCEPT !.isFirstCallback = FALSE], cs>>
    ELSE IF options.debounce > 0
    THEN <<[o EXCEPT !.isFirstCallback = FALSE,
                     !.timers = IF @ = {} THEN {n} ELSE @,
                     !.debounceTimer = IF o.timers = {} THEN n ELSE @], cs>>
    ELSE <<[o EXCEPT !.isFirstCallback = FALSE], Append(cs, Call(o, queryResult, n))>>

\* the callback registered with the store, called with the n-th result:
\* the closure and the invocations cs of the callback afterwards
storeCallback(o, cs, options, queryResult, n) ==
    IF ~o.isActive THEN <<o, cs>>
    ELSE IF o.isFirstCallback /\ ~options.emitInitialValue
    THEN <<[o EXCEPT !.isFirstCallback = FALSE], cs>>
    ELSE IF options.debounce > 0
    THEN <<[o EXCEPT !.isFirstCallback = FALSE,
                     !.timers = (@ \ {o.debounceTimer}) \cup {n},
                     !.debounceTimer = n], cs>>
    ELSE <<[o EXCEPT !.isFirstCallback = FALSE], Append(cs, Call(o, queryResult, n))>>

\* a cancel() that leaves the debounce timer alone
cancel_KeepsTimer(o) ==
    [o EXCEPT !.isActive = FALSE,
              !.storeObserver = "null",
              !.storeCancels = IF o.storeObserver = "registered" THEN @ + 1 ELSE @,
              !.cancels = @ + 1]

\* cancel() of the object observe() returned
cancel(o) ==
    [o EXCEPT !.isActive = FALSE,
              !.timers = @ \ {o.debounceTimer},
              !.debounceTimer = 0,
              !.storeObserver = "null",
              !.storeCancels = IF o.storeObserver = "registered" THEN @ + 1 ELSE @,
              !.cancels = @ + 1]

(***************************************************************************)
(* validateDittoSchema.  A schema entry is a table or a relations object;  *)
(* of a property of an entry the validator reads name, isUnique,           *)
(* references, config.references and check.  The details that follow the   *)
(* constraint type in a message, the list of offending columns, are left   *)
(* out.                                                                    *)
(***************************************************************************)
NoSchema == [present |-> FALSE, entries |-> << >>]

\* the properties <<t, c>> of the entries that the validator counts under
\* kind: the entry is a table (it has `_`, or a property with a name), the
\* property is a column definition (it has a name), and the column is
\* unique and named neither id nor _id, or carries a reference on itself
\* or in its config, or has a check
Flagged(entries, kind) ==
    { tc \in (1..Len(entries)) \X (1..MaxColumns + 1) :
        /\ tc[2] <= Len(entries[tc[1]].columns)
        /\ \/ entries[tc[1]].meta
           \/ \E i \in 1..Len(entries[tc[1]].columns) : entries[tc[1]].columns[i].name # ""
        /\ entries[tc[1]].columns[tc[2]].name # ""
        /\ CASE kind = "unique" ->
                   /\ entries[tc[1]].columns[tc[2]].isUnique
                   /\ entries[tc[1]].columns[tc[2]].name # "id"
                   /\ entries[tc[1]].columns[tc[2]].name # "_id"
             [] kind = "foreignKey" ->
                   \/ entries[tc[1]].columns[tc[2]].references
                   \/ entries[tc[1]].columns[tc[2]].configReferences
             [] OTHER -> entries[tc[1]].columns[tc[2]].check }

\* a validator that looks for references before unique columns
validateDittoSchema_ReferencesFirst(entries) ==
    IF Flagged(entries, "foreignKey") # {}
    THEN Thrown("DittoUnsupportedConstraintError",
                "Unsupported constraint: FOREIGN KEY constraints. ")
    ELSE IF Flagged(entries, "unique") # {}
    THEN Thrown("DittoUnsupportedConstraintError",
                "Unsupported constraint: UNIQUE constraints. ")
    ELSE IF Flagged(entries, "check") # {}
    THEN Thrown("DittoSchemaValidationError",
                "Ditto does not support the following SQL features found in your schema:")
    ELSE Translated("", FALSE, NoArgs)

\* validateDittoSchema(schema) of a schema that is present: what it throws,
\* or a result without error when it returns
validateDittoSchema(entries) ==
    IF Flagged(entries, "unique") # {}
    THEN Thrown("DittoUnsupportedConstraintError",
                "Unsupported constraint: UNIQUE constraints. ")
    ELSE IF Flagged(entries, "foreignKey") # {}
    THEN Thrown("DittoUnsupportedConstraintError",
                "Unsupported constraint: FOREIGN KEY constraints. ")
    ELSE IF Flagged(entries, "check") # {}
    THEN Thrown("DittoSchemaValidationError",
                "Ditto does not support the following SQL features found in your schema:")
    ELSE Translated("", FALSE, NoArgs)

(***************************************************************************)
(* Sessions and store handles.  db issues its statements through the       *)
(* DittoSQLiteSession built on the root store; every call of               *)
(* dittoStore.transaction hands its callback a handle of its own, and the  *)
(* callback builds the session of tx on it.                                *)
(***************************************************************************)
RootStore == 0

NoSessions == [t \in 0..MaxTransactions |-> [state |-> "none", store |-> RootStore]]
NoHandles == [h \in 0..MaxTransactions |-> << >>]

\* a callback that builds the session of tx on the root store
txSessionStore_Root(dittoStore, handle) == dittoStore

\* the store of txSession: new DittoSQLiteBaseSession(dittoTx, ...)
txSessionStore(dittoStore, handle) == handle

\* the statements issued through session v so far, on whatever handle
Issued(v) ==
    { <<h, i>> \in (0..MaxTransactions) \X (1..MaxIssued * (MaxTransactions + 1)) :
          i <= Len(handles[h]) /\ handles[h][i].via = v }

(***************************************************************************)
(* Inputs.                                                                 *)
(***************************************************************************)
Injection == "'; DROP TABLE users; --"
Values == {NullValue, UndefinedValue, Injection}

\* a value that names its position in the parameter array
Positional(i) == "p" \o ToString(i)

\* every array of up to MaxMixed Values, and for every length up to
\* MaxParams the array whose elements are pairwise different
ParamArrays ==
    (UNION { [1..n -> Values] : n \in 0..MaxMixed })
        \cup { [i \in 1..n |-> Positional(i)] : n \in 0..MaxParams }

\* the k-th condition of a generated WHERE clause
Condition(k) ==
    LET r == k % 4
    IN  IF r = 1 THEN "id = ?"
        ELSE IF r = 2 THEN "\"id\" > ?"
        ELSE IF r = 3 THEN "user_id LIKE ?"
        ELSE "(t.id <= ? OR NOT _id = t.id)"

RECURSIVE Conditions(_)
Conditions(n) ==
    IF n = 1 THEN Condition(1)
    ELSE Conditions(n - 1) \o (IF n % 2 = 0 THEN " AND " ELSE " OR ") \o Condition(n)

\* no WHERE clause, or one with 1..MaxPlaceholders placeholders
WhereClauses == {""} \cup { " WHERE " \o Conditions(n) : n \in 1..MaxPlaceholders }

SelectHeads ==
    { "SELECT * FROM users",
      "SELECT id, name FROM users",
      "SELECT \"users\".\"id\", [users].[name] FROM \"users\"",
      "SELECT t.id, user_id, MID(name, 1, 3), _id, COUNT(*) FROM users t" }

UpdateHeads ==
    { "UPDATE users SET name = ?",
      "UPDATE t SET id = ?",
      "UPDATE users SET name = ?, id = ?",
      "UPDATE \"t\" SET \"id\" = ?, parent = id" }

DeleteHeads == { "DELETE FROM users" }

Tails == { "", " GROUP BY id HAVING COUNT(id) > 1 ORDER BY id DESC" }

\* statements with a JOIN, a UNION or a subquery, and one that only has
\* words containing join and union
ClauseStatements ==
    { "SELECT * FROM users INNER JOIN posts ON users.id = posts.user_id",
      "SELECT u.name FROM users u LEFT JOIN posts p ON u.id = p.user_id WHERE u.id = ?",
      "select * from a join b on a.id = b.id",
      "SELECT id FROM users UNION SELECT id FROM admins",
      "SELECT id FROM users WHERE id = ? UNION ALL SELECT id FROM admins WHERE id = ?",
      "SELECT name, (SELECT COUNT(*) FROM orders WHERE user_id = users.id) AS order_count FROM users",
      "SELECT * FROM users WHERE id IN (SELECT user_id FROM orders WHERE total > ?)",
      "SELECT join_date, reunion FROM users WHERE id = ?" }

RewrittenStatements ==
    { h \o w \o t : h \in SelectHeads, w \in WhereClauses, t \in Tails }
        \cup { h \o w : h \in UpdateHeads \cup DeleteHeads, w \in WhereClauses }
        \cup { "UPDATE users SET",
               "  sElEcT * fRoM users WhErE id = ?",
               "\n\tselect id from t limit ?",
               "update t set id = ? where id = ?",
               "delete from t where id = ?",
               "SELECT * FROM limits WHERE \"first name\" = ?" }
        \cup ClauseStatements

\* column lists as written in the statement
ColumnLists ==
    { <<"name">>, <<"id", "name">>, <<"\"name\"", "\"id\"">>, <<"user_id", "id", "age">> }

InsertTables == { "users", "\"users\"" }

\* items separated by ", "
RECURSIVE CommaList(_)
CommaList(items) ==
    IF Len(items) = 1 THEN Head(items)
    ELSE Head(items) \o ", " \o CommaList(Tail(items))

\* INSERT INTO <table> (<columns>) VALUES (?, ...), ... with rows tuples
InsertText(table, columns, rows) ==
    "INSERT INTO " \o table \o " (" \o CommaList(columns) \o ") VALUES "
        \o CommaList([j \in 1..rows |-> "(" \o CommaList([i \in 1..Len(columns) |-> "?"]) \o ")"])

InsertStatements ==
    { InsertText(t, c, m) : t \in InsertTables, c \in ColumnLists, m \in 1..MaxRows }
        \cup { "INSERT INTO users",
               "INSERT INTO users (a, b) VALUES (?)",
               "INSERT INTO users (a, b) VALUES (?, ?), (?)",
               "INSERT INTO users (a VALUES (?)",
               "INSERT INTO users (a, b) VALUES (?, ?",
               "INSERT INTO users VALUES (?)",
               "insert into t (id) values (?)" }

IndexStatements ==
    { "CREATE INDEX idx_name ON users (name)",
      "CREATE INDEX IF NOT EXISTS idx_email ON users (email)",
      "CREATE INDEX idx_id ON documents (id)",
      "CREATE INDEX idx_id ON documents (_id)",
      "CREATE INDEX idx_nested ON users (profile.age)",
      "CREATE INDEX idx_nested ON users (profile.id)",
      "CREATE INDEX \"idx_special\" ON \"users\" (\"field_name\")",
      "create index if not exists i on t (\"id\")",
      "CREATE UNIQUE INDEX idx_unique ON users (email)",
      "CREATE UNIQUE INDEX idx_unique ON users (name, email) WHERE age > 18",
      "CREATE INDEX idx_composite ON users (name, email)",
      "CREATE INDEX idx_partial ON users (age) WHERE age > 18",
      "CREATE INDEX idx_both ON users (name, age) WHERE age > 18",
      "CREATE INDEX idx_func ON users (LOWER(name))",
      "CREATE INDEX idx_func ON users (LOWER(name)) WHERE age > 18",
      "CREATE INDEX idx_name ON users",
      "DROP INDEX idx_name",
      "DROP INDEX IF EXISTS idx_name",
      "drop index idx_name" }

UnsupportedStatements ==
    { "CREATE TABLE users (id INT)",
      "DROP TABLE users",
      "ALTER TABLE users ADD COLUMN name TEXT",
      "TRUNCATE TABLE users",
      "SELEKT * FORM users",
      "SELECTED * FROM users",
      "INSERT users (id) VALUES (?)",
      "DELETE users",
      "(SELECT 1)",
      "" }

Statements ==
    RewrittenStatements \cup InsertStatements \cup IndexStatements \cup UnsupportedStatements

\* the statements of the prepared queries run by all(), get() and values()
QueryStatements ==
    { "SELECT * FROM users",
      "SELECT id, COUNT(*) FROM users GROUP BY id LIMIT 5",
      "SELECT * FROM users WHERE id = ?",
      "SELECT * FROM limits" }

FieldLists ==
    { NoFields,
      <<"id", "name">>,
      <<"name", "email">>,
      <<"category", "g", "count">>,
      <<"id", "count">>,
      <<"count", "category", "total">> }

\* documents of a plain query
PlainDocuments ==
    { [_id |-> "x", name |-> "y"],
      [_id |-> "z", name |-> NullValue],
      [name |-> "y"],
      [_id |-> "w", name |-> "n", email |-> "e"] }

\* documents of an aggregate query
AggregateDocuments ==
    { ("category" :> "A") @@ ("($3)" :> "5"),
      ("category" :> "B") @@ ("($1)" :> "7") @@ ("($3)" :> "9"),
      ("_id" :> "x") @@ ("($2)" :> "5"),
      ("($1)" :> "3") }

\* what the store returns: up to MaxItems documents, all of a plain query or
\* all of an aggregate query
ItemLists ==
    UNION { [1..n -> PlainDocuments] \cup [1..n -> AggregateDocuments] : n \in 0..MaxItems }

\* the statements a transaction function runs
TxStatements ==
    { [sql |-> "INSERT INTO users (id, name) VALUES (?, ?)", params |-> <<"u1", "Alice">>],
      [sql |-> "INSERT INTO posts (id, user_id) VALUES (?, ?), (?, ?)",
       params |-> <<"p1", "u1", "p2", "u1">>],
      [sql |-> "INSERT INTO users", params |-> << >>] }

\* the transaction functions: up to MaxStatements statements, and either no
\* throw or a throw after some number of them
TransactionFns ==
    UNION { [statements : [1..n -> TxStatements],
             throwAfter : {NoThrow} \cup 0..n,
             value : {"done"}] : n \in 0..MaxStatements }

\* the config objects passed to db.transaction: none, an accessMode, the
\* isReadOnly flag of the integration test, and both keys together
TransactionConfigs ==
    { [accessMode |-> "absent", isReadOnly |-> "absent"],
      [accessMode |-> "read write", isReadOnly |-> "absent"],
      [accessMode |-> "read only", isReadOnly |-> "absent"],
      [accessMode |-> "absent", isReadOnly |-> "true"],
      [accessMode |-> "read write", isReadOnly |-> "true"] }
NoConfig == [accessMode |-> "absent", isReadOnly |-> "absent"]

\* the properties of a schema entry: columns id and _id marked unique, a
\* unique column, columns with a reference on the column and in its config,
\* a column with a check, and a property without a name
SchemaColumns ==
    { [name |-> "id", isUnique |-> TRUE, references |-> FALSE, configReferences |-> FALSE,
       check |-> FALSE],
      [name |-> "_id", isUnique |-> TRUE, references |-> FALSE, configReferences |-> FALSE,
       check |-> FALSE],
      [name |-> "email", isUnique |-> TRUE, references |-> FALSE, configReferences |-> FALSE,
       check |-> FALSE],
      [name |-> "user_id", isUnique |-> FALSE, references |-> TRUE, configReferences |-> FALSE,
       check |-> FALSE],
      [name |-> "category_id", isUnique |-> FALSE, references |-> FALSE,
       configReferences |-> TRUE, check |-> FALSE],
      [name |-> "age", isUnique |-> FALSE, references |-> FALSE, configReferences |-> FALSE,
       check |-> TRUE],
      [name |-> "", isUnique |-> TRUE, references |-> TRUE, configReferences |-> FALSE,
       check |-> FALSE] }

\* the schemas: none, and up to MaxTables entries; an entry is a table of
\* up to MaxColumns properties, or a relations object, which has no `_` and
\* no property with a name
Schemas ==
    {NoSchema} \cup
    [present : {TRUE},
     entries : UNION { [1..n ->
                 [meta : {TRUE}, columns : UNION { [1..k -> SchemaColumns] : k \in 1..MaxColumns }]
                 \cup { [meta |-> FALSE,
                         columns |-> <<[name |-> "", isUnique |-> TRUE, references |-> TRUE,
                                        configReferences |-> FALSE, check |-> FALSE]>>] }]
               : n \in 0..MaxTables }]

\* the options passed to observe()
ObserveOptions == [emitInitialValue : BOOLEAN, debounce : {0, 150}]

\* the statements observed: a plain select, and one the translator rejects
ObservedStatements ==
    { "SELECT * FROM users", "SELECT * FROM users JOIN posts ON users.id = posts.user_id" }

\* what the store holds when observe() is called
ObservedStores ==
    { << >>,
      <<[_id |-> "x", name |-> "y"]>>,
      <<("category" :> "A") @@ ("($3)" :> "5")>> }

\* the document whose insertion makes the store deliver its n-th result
ChangedStore(documents, n) ==
    Append(documents,
           IF isAggregateQuery(documents)
           THEN ("category" :> ("N" \o ToString(n))) @@ ("($3)" :> ToString(n))
           ELSE [_id |-> "new" \o ToString(n), name |-> "n"])

\* what the store holds before the transaction
InitialStores == { << >>, <<[_id |-> "x", name |-> "y"]>> }

NoIndex == [tableName |-> "", columnName |-> "", indexName |-> ""]

IndexArgs ==
    [tableName : {"users", "documents"},
     columnName : {"id", "_id", "name", "profile.age", "name, email", "LOWER(name)"},
     indexName : {"", "custom_age_index"}]

(***************************************************************************)
(* State machine.  A behaviour is one call of one operation: Init draws    *)
(* the operation and its inputs, the action runs it to completion.  A run  *)
(* that inserted and a transaction may be followed by one query, and a     *)
(* transaction takes one step per statement of its function.               *)
(***************************************************************************)
Init ==
    /\ pc = "start"
    /\ result = Pending
    /\ executed = << >>
    /\ returned = << >>
    /\ dittoTx = NoTx
    /\ settled = NotSettled
    /\ nested = << >>
    /\ sessions = NoSessions
    /\ handles = NoHandles
    /\ opts = DefaultOptions
    /\ observer = NoObserver
    /\ delivered = << >>
    /\ calls = << >>
    /\ \/ /\ op \in {"sqlToDql", "run"}
          /\ sql \in Statements
          /\ params \in ParamArrays
          /\ index = NoIndex
          /\ fields = NoFields
          /\ isResponseInArrayMode = FALSE
          /\ stored = << >>
          /\ transactionFn = NoFn
          /\ config = NoConfig
          /\ schema = NoSchema
       \/ /\ op = "createIndex"
          /\ sql = ""
          /\ params = << >>
          /\ index \in IndexArgs
          /\ fields = NoFields
          /\ isResponseInArrayMode = FALSE
          /\ stored = << >>
          /\ transactionFn = NoFn
          /\ config = NoConfig
          /\ schema = NoSchema
       \/ /\ op \in {"all", "get", "values"}
          /\ sql \in QueryStatements
          /\ params = << >>
          /\ index = NoIndex
          /\ fields \in FieldLists
          /\ isResponseInArrayMode \in BOOLEAN
          /\ stored \in ItemLists
          /\ transactionFn = NoFn
          /\ config = NoConfig
          /\ schema = NoSchema
       \/ /\ op = "transaction"
          /\ sql = ""
          /\ params = << >>
          /\ index = NoIndex
          /\ fields = NoFields
          /\ isResponseInArrayMode = FALSE
          /\ stored \in InitialStores
          /\ transactionFn \in TransactionFns
          /\ config \in TransactionConfigs
          /\ schema = NoSchema

\* a direct call sqlToDql(sql, params)
Translate ==
    /\ pc = "start"
    /\ op = "sqlToDql"
    /\ result' = sqlToDql(sql, params)
    /\ pc' = "done"
    /\ UNCHANGED <<idleVars, schema, op, sql, params, index, executed, stored, queryVars, txVars>>

\* DittoSQLitePreparedQuery.run: translate, then execute on the store; a
\* translation error propagates before the store is called
Run ==
    /\ pc = "start"
    /\ op = "run"
    /\ result' = sqlToDql(sql, params)
    /\ executed' = IF result'.ok THEN Append(executed, StoreCall(result')) ELSE executed
    /\ stored' = IF result'.ok THEN StoreAfter(stored, result') ELSE stored
    /\ pc' = "done"
    /\ UNCHANGED <<idleVars, schema, op, sql, params, index, queryVars, txVars>>

\* db.select().from(table).all() after a run that inserted: all() of a
\* prepared query without field list, answered with the store's documents
SelectInserted ==
    /\ pc = "done"
    /\ op = "run"
    /\ result.ok
    /\ Includes(result.query, " DOCUMENTS ")
    /\ executed' = Append(executed,
                          StoreCall(sqlToDql("SELECT * FROM " \o parseInsert(sql).table, << >>)))
    /\ returned' = all(NoFields, FALSE, stored)
    /\ pc' = "selected"
    /\ UNCHANGED <<idleVars, schema, op, sql, params, index, result, fields, isResponseInArrayMode, stored,
                   txVars>>

\* DittoSQLitePreparedQuery.all
All ==
    /\ pc = "start"
    /\ op = "all"
    /\ result' = sqlToDql(sql, params)
    /\ executed' = IF result'.ok THEN Append(executed, StoreCall(result')) ELSE executed
    /\ returned' = IF result'.ok THEN all(fields, isResponseInArrayMode, stored) ELSE returned
    /\ pc' = "done"
    /\ UNCHANGED <<idleVars, schema, op, sql, params, index, fields, isResponseInArrayMode, stored, txVars>>

\* DittoSQLitePreparedQuery.get
Get ==
    /\ pc = "start"
    /\ op = "get"
    /\ result' = sqlToDql(sql, params)
    /\ executed' = IF result'.ok
                   THEN Append(executed, StoreCall(getQuery(fields, result')))
                   ELSE executed
    /\ returned' = IF result'.ok THEN get(fields, isResponseInArrayMode, stored) ELSE returned
    /\ pc' = "done"
    /\ UNCHANGED <<idleVars, schema, op, sql, params, index, fields, isResponseInArrayMode, stored, txVars>>

\* DittoSQLitePreparedQuery.values
ValuesCall ==
    /\ pc = "start"
    /\ op = "values"
    /\ result' = sqlToDql(sql, params)
    /\ executed' = IF result'.ok THEN Append(executed, StoreCall(result')) ELSE executed
    /\ returned' = IF result'.ok THEN values(fields, isResponseInArrayMode, stored) ELSE returned
    /\ pc' = "done"
    /\ UNCHANGED <<idleVars, schema, op, sql, params, index, fields, isResponseInArrayMode, stored, txVars>>

\* DittoSQLiteDatabase.createIndex(tableName, columnName, indexName)
CreateIndex ==
    /\ pc = "start"
    /\ op = "createIndex"
    /\ sql' = createIndexSql(index.tableName, index.columnName, index.indexName)
    /\ params' = << >>
    /\ result' = sqlToDql(sql', params')
    /\ executed' = IF result'.ok THEN Append(executed, StoreCall(result')) ELSE executed
    /\ pc' = "done"
    /\ UNCHANGED <<idleVars, schema, op, index, stored, queryVars, txVars>>

\* db.transaction(transactionFn): dittoStore.transaction is called and the
\* store opens its transaction on the documents it holds
BeginTransaction ==
    /\ pc = "start"
    /\ op = "transaction"
    /\ dittoTx' = [NoTx EXCEPT !.state = "open", !.documents = stored,
                                !.isReadOnly = isReadOnly(config)]
    /\ pc' = "intx"
    /\ UNCHANGED <<idleVars, schema, op, sql, params, index, result, executed, stored, queryVars,
                   transactionFn, settled, config, nested>>

\* transactionFn runs its next statement with tx.run: the prepared query of
\* the transaction session translates it and executes it on dittoTx; an
\* error of the translation is thrown out of transactionFn
TxRun ==
    /\ pc = "intx"
    /\ dittoTx.error = ""
    /\ dittoTx.step < Len(transactionFn.statements)
    /\ transactionFn.throwAfter # dittoTx.step
    /\ result' = sqlToDql(transactionFn.statements[dittoTx.step + 1].sql,
                          transactionFn.statements[dittoTx.step + 1].params)
    /\ dittoTx' = IF result'.ok
                  THEN [dittoTx EXCEPT !.step = @ + 1,
                                       !.executed = Append(@, StoreCall(result')),
                                       !.documents = StoreAfter(@, result')]
                  ELSE [dittoTx EXCEPT !.error = result'.message]
    /\ UNCHANGED <<idleVars, schema, op, sql, params, index, pc, executed, stored, queryVars,
                   transactionFn, settled, config, nested>>

\* transactionFn calls tx.transaction(fn) and catches what it throws: the
\* session of tx is the DittoSQLiteBaseSession built on dittoTx
NestedTransaction ==
    /\ pc = "intx"
    /\ dittoTx.error = ""
    /\ transactionFn.throwAfter # dittoTx.step
    /\ Len(nested) < MaxNested
    /\ nested' = Append(nested, [thrown |-> baseSessionTransaction(dittoTx).thrown,
                                 invoked |-> baseSessionTransaction(dittoTx).invoked,
                                 step |-> dittoTx.step])
    /\ dittoTx' = baseSessionTransaction(dittoTx).store
    /\ UNCHANGED <<idleVars, schema, op, sql, params, index, pc, result, executed, stored, queryVars,
                   transactionFn, settled, config>>

\* transactionFn has settled: the callback returns its value or rethrows
\* its error, the store commits or rolls back, and db.transaction settles
\* the same way
SettleTransaction ==
    /\ pc = "intx"
    /\ \/ dittoTx.error # ""
       \/ dittoTx.step = Len(transactionFn.statements)
       \/ transactionFn.throwAfter = dittoTx.step
    /\ settled' = transactionCallback(FnOutcome(transactionFn, dittoTx))
    /\ stored' = StoreAfterTransaction(stored, dittoTx, settled')
    /\ dittoTx' = [dittoTx EXCEPT !.state = IF settled'.state = "resolved"
                                            THEN "committed" ELSE "rolledBack"]
    /\ pc' = "settled"
    /\ UNCHANGED <<idleVars, schema, op, sql, params, index, result, executed, queryVars, transactionFn,
                   config, nested>>

\* db.select().from(table).all() after the transaction has settled
SelectSettled ==
    /\ pc = "settled"
    /\ executed' = Append(executed, StoreCall(sqlToDql("SELECT * FROM users", << >>)))
    /\ returned' = all(NoFields, FALSE, stored)
    /\ pc' = "queried"
    /\ UNCHANGED <<idleVars, schema, op, sql, params, index, result, fields, isResponseInArrayMode, stored,
                   txVars>>

Next ==
    \/ Translate \/ Run \/ CreateIndex \/ SelectInserted \/ All \/ Get \/ ValuesCall
    \/ BeginTransaction \/ TxRun \/ NestedTransaction \/ SettleTransaction
    \/ SelectSettled

Spec == Init /\ [][Next]_vars

(***************************************************************************)
(* Sessions in flight: db and up to MaxTransactions transactions whose     *)
(* callbacks run interleaved, each issuing statements through its own      *)
(* session.                                                                *)
(***************************************************************************)
\* the variables of a single call, at rest
Idle(operation) ==
    /\ op = operation
    /\ pc = "start"
    /\ sql = ""
    /\ params = << >>
    /\ index = NoIndex
    /\ result = Pending
    /\ executed = << >>
    /\ fields = NoFields
    /\ isResponseInArrayMode = FALSE
    /\ stored = << >>
    /\ returned = << >>
    /\ transactionFn = NoFn
    /\ dittoTx = NoTx
    /\ settled = NotSettled
    /\ config = NoConfig
    /\ nested = << >>

singleVars == <<op, sql, params, index, pc, result, executed, stored, queryVars, txVars,
                schema>>

\* the session of db exists once the database is constructed
HandleInit ==
    /\ Idle("sessions")
    /\ schema = NoSchema
    /\ sessions = [NoSessions EXCEPT ![RootStore] = [state |-> "open", store |-> RootStore]]
    /\ handles = NoHandles
    /\ opts = DefaultOptions
    /\ observer = NoObserver
    /\ delivered = << >>
    /\ calls = << >>

\* db.transaction(fn): the store opens its t-th transaction and the callback
\* builds the session of tx on the handle it is given
OpenTransaction(t) ==
    /\ sessions[t].state = "none"
    /\ sessions' = [sessions EXCEPT ![t] = [state |-> "open",
                                            store |-> txSessionStore(RootStore, t)]]
    /\ UNCHANGED <<handles, singleVars, obsVars>>

\* a statement issued through session v: prepareQuery hands the session's
\* store to the prepared query, and run executes on that store
Issue(v) ==
    /\ sessions[v].state = "open"
    /\ Cardinality(Issued(v)) < MaxIssued
    /\ handles' = [handles EXCEPT ![sessions[v].store] =
                       Append(@, [via |-> v, n |-> Cardinality(Issued(v)) + 1])]
    /\ UNCHANGED <<sessions, singleVars, obsVars>>

\* the callback of the t-th transaction settles and the store ends it
CloseTransaction(t) ==
    /\ sessions[t].state = "open"
    /\ sessions' = [sessions EXCEPT ![t].state = "closed"]
    /\ UNCHANGED <<handles, singleVars, obsVars>>

HandleNext ==
    \/ \E t \in 1..MaxTransactions : OpenTransaction(t)
    \/ \E v \in 0..MaxTransactions : Issue(v)
    \/ \E t \in 1..MaxTransactions : CloseTransaction(t)

HandleSpec == HandleInit /\ [][HandleNext]_vars

(***************************************************************************)
(* Construction: wrapDittoWithDrizzle(ditto, config) with a schema drawn   *)
(* from Schemas.                                                           *)
(***************************************************************************)
ConstructInit ==
    /\ Idle("construct")
    /\ schema \in Schemas
    /\ sessions = NoSessions
    /\ handles = NoHandles
    /\ opts = DefaultOptions
    /\ observer = NoObserver
    /\ delivered = << >>
    /\ calls = << >>

\* wrapDittoWithDrizzle(ditto, config): new DittoSQLiteDatabase validates the
\* schema when the config has one, and only then creates the session on the
\* root store; an error of the validation leaves the constructor at once
Construct ==
    /\ pc = "start"
    /\ op = "construct"
    /\ result' = IF schema.present
                 THEN validateDittoSchema(schema.entries)
                 ELSE Translated("", FALSE, NoArgs)
    /\ sessions' = IF result'.ok
                   THEN [sessions EXCEPT ![RootStore] = [state |-> "open", store |-> RootStore]]
                   ELSE sessions
    /\ pc' = "done"
    /\ UNCHANGED <<op, sql, params, index, executed, stored, queryVars, txVars, handles,
                   schema, obsVars>>

ConstructSpec == ConstructInit /\ [][Construct]_vars

(***************************************************************************)
(* An observation: observe() registers the store observer, the store       *)
(* delivers its result at registration and after every change, a pending   *)
(* timer fires, and the caller cancels, in any order.                      *)
(***************************************************************************)
ObserveInit ==
    /\ op = "observe"
    /\ pc = "start"
    /\ sql \in ObservedStatements
    /\ params = << >>
    /\ index = NoIndex
    /\ result = Pending
    /\ executed = << >>
    /\ fields \in {NoFields, <<"name", "email">>, <<"category", "g", "count">>}
    /\ isResponseInArrayMode \in BOOLEAN
    /\ stored \in ObservedStores
    /\ returned = << >>
    /\ transactionFn = NoFn
    /\ dittoTx = NoTx
    /\ settled = NotSettled
    /\ config = NoConfig
    /\ nested = << >>
    /\ schema = NoSchema
    /\ sessions = [NoSessions EXCEPT ![RootStore] = [state |-> "open", store |-> RootStore]]
    /\ handles = NoHandles
    /\ opts \in ObserveOptions
    /\ observer = NoObserver
    /\ delivered = << >>
    /\ calls = << >>

\* db.observe(query, callback, options): the statement is translated, which
\* may throw, and the observer is registered with the store
Observe ==
    /\ pc = "start"
    /\ result' = sqlToDql(sql, params)
    /\ observer' = IF result'.ok
                   THEN [NoObserver EXCEPT !.isActive = TRUE, !.storeObserver = "registered"]
                   ELSE observer
    /\ pc' = IF result'.ok THEN "observing" ELSE "done"
    /\ UNCHANGED <<op, sql, params, index, executed, stored, queryVars, txVars, schema,
                   sessions, handles, opts, delivered, calls>>

\* the store calls the registered callback with its result: the first time
\* with what it holds, afterwards with what it holds after a change; a
\* result on its way when cancel() was called still arrives
Deliver ==
    /\ pc = "observing"
    /\ Len(delivered) < MaxDeliveries
    /\ stored' = IF delivered = << >> THEN stored
                 ELSE ChangedStore(stored, Len(delivered) + 1)
    /\ delivered' = Append(delivered, stored')
    /\ observer' = storeCallback(observer, calls, opts, stored', Len(delivered'))[1]
    /\ calls' = storeCallback(observer, calls, opts, stored', Len(delivered'))[2]
    /\ UNCHANGED <<op, sql, params, index, pc, result, executed, queryVars, txVars, schema,
                   sessions, handles, opts>>

\* a pending timer fires: triggerCallback hands the rows of the delivery
\* that set it to the callback
TimerFires ==
    /\ pc = "observing"
    /\ \E n \in observer.timers :
          /\ calls' = Append(calls, Call(observer, delivered[n], n))
          /\ observer' = [observer EXCEPT !.timers = @ \ {n}]
    /\ UNCHANGED <<op, sql, params, index, pc, result, executed, stored, queryVars, txVars,
                   schema, sessions, handles, opts, delivered>>

\* the caller calls cancel() on the object observe() returned
Cancel ==
    /\ pc = "observing"
    /\ observer.cancels < MaxCancels
    /\ observer' = cancel(observer)
    /\ UNCHANGED <<op, sql, params, index, pc, result, executed, stored, queryVars, txVars,
                   schema, sessions, handles, opts, delivered, calls>>

ObserveNext == Observe \/ Deliver \/ TimerFires \/ Cancel

ObserveSpec == ObserveInit /\ [][ObserveNext]_vars

\* timers fire: setTimeout runs the function it was given once the delay
\* has passed unless the timer was cleared
FairObserveSpec == ObserveSpec /\ WF_vars(TimerFires)


(***************************************************************************)
(* Observations used to state the properties.  They read statement text    *)
(* character by character and do not use the lexer of the translator.      *)
(***************************************************************************)
Done == pc = "done"

\* the names of the named placeholders of q (the word after each `:`),
\* left to right
RECURSIVE NamesFrom(_, _)
NamesFrom(q, colon) ==
    IF colon = 0 THEN << >>
    ELSE <<SubSeq(q, colon + 1, colon + PrefixLen(SubSeq(q, colon + 1, Len(q)), WordChars))>>
             \o NamesFrom(SubSeq(q, colon + 1, Len(q)), IndexOf(SubSeq(q, colon + 1, Len(q)), ":"))

PlaceholderNames(q) == NamesFrom(q, IndexOf(q, ":"))

\* q with every named placeholder turned back into `?`
\* the character at position i of q belongs to the name of a placeholder
RECURSIVE InPlaceholderName(_, _)
InPlaceholderName(q, i) ==
    /\ i > 1
    /\ SubSeq(q, i, i) \in WordChars
    /\ (SubSeq(q, i - 1, i - 1) = ":" \/ InPlaceholderName(q, i - 1))

RECURSIVE PositionalizeRange(_, _, _)
PositionalizeRange(q, lo, hi) ==
    IF lo > hi THEN ""
    ELSE IF lo = hi
         THEN (IF InPlaceholderName(q, lo) THEN ""
               ELSE IF SubSeq(q, lo, lo) = ":" THEN "?"
               ELSE SubSeq(q, lo, lo))
    ELSE PositionalizeRange(q, lo, (lo + hi) \div 2)
             \o PositionalizeRange(q, (lo + hi) \div 2 + 1, hi)

Positionalize(q) == PositionalizeRange(q, 1, Len(q))

\* s without the characters of the set cs
RECURSIVE Without(_, _)
Without(s, cs) ==
    IF Len(s) <= 1 THEN (IF s \in cs THEN "" ELSE s)
    ELSE Without(SubSeq(s, 1, Len(s) \div 2), cs)
             \o Without(SubSeq(s, Len(s) \div 2 + 1, Len(s)), cs)

\* the text that is left when identifier quoting and the underscore that the
\* reserved-name rewrite adds are disregarded
Skeleton(s) == Without(s, {"\"", "[", "]", "_"})

\* the maximal runs of word characters of s, left to right
\* length of the longest prefix of s without a character of the set cs
RECURSIVE GapLen(_, _)
GapLen(s, cs) ==
    IF s = "" \/ Head(s) \in cs THEN 0 ELSE 1 + GapLen(Tail(s), cs)

RECURSIVE WordsFrom(_, _)
WordsFrom(s, n) ==
    IF n = 0 THEN << >>
    ELSE <<SubSeq(s, 1, n)>>
             \o WordsFrom(SubSeq(s, n + GapLen(SubSeq(s, n + 1, Len(s)), WordChars) + 1, Len(s)),
                          PrefixLen(SubSeq(s, n + GapLen(SubSeq(s, n + 1, Len(s)), WordChars) + 1,
                                           Len(s)), WordChars))

WholeWords(s) ==
    WordsFrom(SubSeq(s, GapLen(s, WordChars) + 1, Len(s)),
              PrefixLen(SubSeq(s, GapLen(s, WordChars) + 1, Len(s)), WordChars))

\* s starts, after optional whitespace, with the given keywords in any case,
\* each one a whole word
RECURSIVE StartsWithKeywords(_, _)
StartsWithKeywords(s, keywords) ==
    IF keywords = << >> THEN TRUE
    ELSE LET body == SubSeq(s, PrefixLen(s, SpaceChars) + 1, Len(s))
             k == Head(keywords)
         IN  /\ Len(body) >= Len(k)
             /\ ToUpperCase(SubSeq(body, 1, Len(k))) = k
             /\ (Len(body) = Len(k) \/ SubSeq(body, Len(k) + 1, Len(k) + 1) \notin WordChars)
             /\ StartsWithKeywords(SubSeq(body, Len(k) + 1, Len(body)), Tail(keywords))

IsSelect == StartsWithKeywords(sql, <<"SELECT">>)
IsInsert == StartsWithKeywords(sql, <<"INSERT", "INTO">>)
IsUpdate == StartsWithKeywords(sql, <<"UPDATE">>)
IsDelete == StartsWithKeywords(sql, <<"DELETE", "FROM">>)
IsCreateIndex ==
    \/ StartsWithKeywords(sql, <<"CREATE", "INDEX">>)
    \/ StartsWithKeywords(sql, <<"CREATE", "UNIQUE", "INDEX">>)
IsDropIndex == StartsWithKeywords(sql, <<"DROP", "INDEX">>)

\* s has the whole word k, in any case
MentionsKeyword(s, k) ==
    \E i \in 1..Len(WholeWords(s)) : ToUpperCase(WholeWords(s)[i]) = k

HasJoin == MentionsKeyword(sql, "JOIN")
HasUnion == MentionsKeyword(sql, "UNION")

\* an opening parenthesis of sql is followed by the keyword SELECT
HasSubquery ==
    \E i \in 1..Len(sql) :
        /\ SubSeq(sql, i, i) = "("
        /\ StartsWithKeywords(SubSeq(sql, i + 1, Len(sql)), <<"SELECT">>)

NumQuestionMarks == CountChar(sql, "?")

C2_ArgsAbsentIffNoPlaceholders ==
    (Done /\ result.ok)
        => /\ ~result.hasArgs <=> (NumQuestionMarks = 0 /\ ~IsInsert)
           /\ ~result.hasArgs => result.args = NoArgs
           /\ result.hasArgs => DOMAIN result.args # {}

C2_Witness ==
    /\ Done /\ result.ok /\ IsCreateIndex
    /\ ~result.hasArgs /\ NumQuestionMarks = 0

(***************************************************************************)
(* Expected INSERT results, read off the statement as it is written.       *)
(***************************************************************************)
\* the document key of a column as written in the column list
ExpectedKey(col) ==
    IF Without(col, {"\""}) = "id" THEN "_id" ELSE Without(col, {"\""})

\* the documents clause of m >= 2 tuples
NumberedDocuments(m) == CommaList([j \in 1..m |-> "(:doc" \o ToString(j) \o ")"])

C4_MultiRowInsertDocuments ==
    \A t \in InsertTables, cols \in ColumnLists, m \in 2..MaxRows :
        (Done /\ sql = InsertText(t, cols, m) /\ Len(params) = m * Len(cols))
            => /\ result.ok
               /\ result.query = "INSERT INTO " \o Without(t, {"\""}) \o " DOCUMENTS "
                                     \o NumberedDocuments(m)
               /\ DOMAIN result.args = { "doc" \o ToString(j) : j \in 1..m }
               /\ \A j \in 1..m :
                    LET d == result.args["doc" \o ToString(j)]
                    IN  /\ DOMAIN d = { ExpectedKey(cols[i]) : i \in 1..Len(cols) }
                        /\ "id" \notin DOMAIN d
                        /\ \A i \in 1..Len(cols) :
                              d[ExpectedKey(cols[i])] = params[(j - 1) * Len(cols) + i]
                        /\ \A key \in DOMAIN d :
                              \E k \in ((j - 1) * Len(cols) + 1)..(j * Len(cols)) :
                                  d[key] = params[k]

C4_Witness ==
    /\ Done /\ result.ok
    /\ sql = "INSERT INTO users (id, name) VALUES (?, ?), (?, ?), (?, ?)"
    /\ Len(params) = 6
    /\ result.args["doc3"]["_id"] = Positional(5)
    /\ result.args["doc2"]["name"] = Positional(4)

(***************************************************************************)
(* C5  Classification is total and decided by the leading keywords alone:  *)
(* a text has at most one recognised lead, the classifier names that lead  *)
(* or Unsupported, and a text without a recognised lead makes sqlToDql     *)
(* throw a message containing `Unsupported SQL operation`, with no query   *)
(* returned and nothing sent to the store.                                 *)
(***************************************************************************)
RecognisedLeads == <<IsSelect, IsInsert, IsUpdate, IsDelete, IsCreateIndex, IsDropIndex>>

KindNames == <<"Select", "Insert", "Update", "Delete", "CreateIndex", "DropIndex">>

NoMatch == "<no match>"

Trim(s) == SubSeq(s, PrefixLen(s, SpaceChars) + 1, Len(s))

AfterKeyword(s, k) ==
    IF s # NoMatch /\ StartsWithKeywords(s, <<k>>)
    THEN Trim(SubSeq(Trim(s), Len(k) + 1, Len(Trim(s))))
    ELSE NoMatch

\* a bare word or a double-quoted name
AfterIdentifier(s) ==
    IF s = NoMatch \/ s = "" THEN NoMatch
    ELSE IF Head(s) \in WordChars
         THEN Trim(SubSeq(s, PrefixLen(s, WordChars) + 1, Len(s)))
    ELSE IF Head(s) = "\"" /\ IndexOf(Tail(s), "\"") > 1
         THEN Trim(SubSeq(s, IndexOf(Tail(s), "\"") + 2, Len(s)))
    ELSE NoMatch

AfterChar(s, c) ==
    IF s # NoMatch /\ s # "" /\ Head(s) = c THEN Trim(Tail(s)) ELSE NoMatch

\* an identifier or a dotted path of identifiers
RECURSIVE AfterPath(_)
AfterPath(s) ==
    IF AfterChar(AfterIdentifier(s), ".") # NoMatch
    THEN AfterPath(AfterChar(AfterIdentifier(s), "."))
    ELSE AfterIdentifier(s)

AfterIfNotExists(s) ==
    IF StartsWithKeywords(s, <<"IF", "NOT", "EXISTS">>)
    THEN AfterKeyword(AfterKeyword(AfterKeyword(s, "IF"), "NOT"), "EXISTS")
    ELSE s

\* the text after CREATE INDEX [IF NOT EXISTS] <name> ON <table> (
IndexColumns(s) ==
    AfterChar(
        AfterIdentifier(
            AfterKeyword(
                AfterIdentifier(AfterIfNotExists(AfterKeyword(AfterKeyword(s, "CREATE"), "INDEX"))),
                "ON")),
        "(")

\* the column list up to its first closing parenthesis
ColumnText(s) == SubSeq(IndexColumns(s), 1, IndexOf(IndexColumns(s), ")") - 1)

IsSimpleIndex(s) == AfterChar(AfterPath(IndexColumns(s)), ")") = ""

IsUniqueIndex == StartsWithKeywords(sql, <<"CREATE", "UNIQUE", "INDEX">>)

IsPlainIndex == StartsWithKeywords(sql, <<"CREATE", "INDEX">>)

HasSeveralColumns ==
    /\ IndexColumns(sql) # NoMatch
    /\ CountChar(ColumnText(sql), ",") > 0
    /\ CountChar(ColumnText(sql), "(") = 0

HasTrailingWhere ==
    /\ IndexColumns(sql) # NoMatch
    /\ Includes(ToUpperCase(IndexColumns(sql)), ") WHERE ")

HasFunctionCall ==
    /\ IndexColumns(sql) # NoMatch
    /\ CountChar(ColumnText(sql), "(") > 0

Unsupported(label) ==
    /\ result.name = "DittoUnsupportedOperationError"
    /\ Includes(result.message, label)

(***************************************************************************)
(* C6  An index statement is translated exactly when it is a non-unique    *)
(* CREATE INDEX [IF NOT EXISTS] <name> ON <table> (<column>) with one bare *)
(* or dotted column and nothing after it.  Every other one throws, returns *)
(* no query and reaches no store: UNIQUE is reported as `UNIQUE INDEX`,    *)
(* several columns as `Composite INDEX`, a trailing WHERE as `Partial      *)
(* INDEX`, a function-call column as `Unable to parse CREATE INDEX`, and   *)
(* DROP INDEX as `DROP INDEX`; a statement with several of these defects   *)
(* reports the first of them in this order.                                *)
(***************************************************************************)
C6_IndexStatementsAcceptedOrRejected ==
    (Done /\ (IsCreateIndex \/ IsDropIndex))
        => /\ result.ok <=> IsSimpleIndex(sql)
           /\ ~result.ok => (result.query = "" /\ executed = << >>)
           /\ IsUniqueIndex => Unsupported("UNIQUE INDEX")
           /\ (IsPlainIndex /\ HasSeveralColumns) => Unsupported("Composite INDEX")
           /\ (IsPlainIndex /\ ~HasSeveralColumns /\ HasTrailingWhere)
                 => Unsupported("Partial INDEX")
           /\ (IsPlainIndex /\ ~HasTrailingWhere /\ HasFunctionCall)
                 => /\ ~result.ok
                    /\ Includes(result.message, "Unable to parse CREATE INDEX")
           /\ IsDropIndex => Unsupported("DROP INDEX")

C6_Witness ==
    /\ Done /\ op = "run"
    /\ sql = "CREATE INDEX idx_composite ON users (name, email)"
    /\ result.name = "DittoUnsupportedOperationError"
    /\ result.message = "Unsupported SQL operation: Composite INDEX. Use single-field indexes instead"
    /\ executed = << >>

(***************************************************************************)
(* C7  The output of an accepted CREATE INDEX is the statement as written  *)
(* with the identifier quotes removed and a column that is exactly id      *)
(* turned into _id; a dotted path and a column _id are left as they are.   *)
(* createIndex(table, 'id') without an index name executes                 *)
(* CREATE INDEX IF NOT EXISTS <table>_id_idx ON <table> (_id), without     *)
(* arguments, at the store.                                                *)
(***************************************************************************)
ExpectedIndexText(s) ==
    IF Len(Without(s, {"\""})) >= 4
        /\ SubSeq(Without(s, {"\""}), Len(Without(s, {"\""})) - 3, Len(Without(s, {"\""}))) = "(id)"
    THEN SubSeq(Without(s, {"\""}), 1, Len(Without(s, {"\""})) - 4) \o "(_id)"
    ELSE Without(s, {"\""})

C7_AcceptedIndexText ==
    /\ (Done /\ IsCreateIndex /\ result.ok)
          => /\ result.query = ExpectedIndexText(sql)
             /\ ~result.hasArgs
             /\ op # "sqlToDql" => executed = <<StoreCall(result)>>
    /\ (Done /\ op = "createIndex" /\ index.columnName = "id" /\ index.indexName = "")
          => executed = << [query |-> "CREATE INDEX IF NOT EXISTS " \o index.tableName
                                          \o "_id_idx ON " \o index.tableName \o " (_id)",
                            hasArgs |-> FALSE,
                            args |-> NoArgs] >>

C7_Witness ==
    /\ Done /\ op = "createIndex"
    /\ index = [tableName |-> "documents", columnName |-> "id", indexName |-> ""]
    /\ Len(executed) = 1
    /\ executed[1].query = "CREATE INDEX IF NOT EXISTS documents_id_idx ON documents (_id)"

(***************************************************************************)
(* C8  In SELECT, UPDATE and DELETE the whole words of the output are the  *)
(* whole words of the input with each word that is exactly id replaced by  *)
(* _id (in UPDATE a word id may also stay, see C9); user_id, MID, _id,     *)
(* keywords and function names are unchanged, and so is every character    *)
(* that is not part of a word, identifier quoting aside.                   *)
(***************************************************************************)
RenamedWords(words) ==
    [i \in 1..Len(words) |-> IF words[i] = "id" THEN "_id" ELSE words[i]]

Punctuation(s) == Without(Without(s, {"\"", "[", "]"}), WordChars)

ExpectedAssignments(head) ==
    CASE head = "UPDATE users SET name = ?" -> "UPDATE users SET name = :arg1"
      [] head = "UPDATE t SET id = ?" -> "UPDATE t SET id = :arg1"
      [] head = "UPDATE users SET name = ?, id = ?" -> "UPDATE users SET name = :arg1, id = :arg2"
      [] head = "UPDATE \"t\" SET \"id\" = ?, parent = id" -> "UPDATE t SET id = :arg1"

\* the part of s from the first occurrence of sub on
FromText(s, sub) ==
    SubSeq(s, FirstOf({ i \in 1..(Len(s) - Len(sub) + 1) : SubSeq(s, i, i + Len(sub) - 1) = sub }),
           Len(s))

CountWords(words, names) == Cardinality({ i \in 1..Len(words) : words[i] \in names })

C10_ArityMismatchFails ==
    (Done /\ op = "sqlToDql" /\ (IsSelect \/ IsUpdate \/ IsDelete)
          /\ NumQuestionMarks # Len(params))
        => ~result.ok

(***************************************************************************)
(* The shape of an INSERT statement, matched on the characters of the      *)
(* text: INSERT INTO <table> (<c1>, ...) VALUES (?, ...), (?, ...) with as *)
(* many `?` in every tuple as there are columns.                           *)
(***************************************************************************)
RECURSIVE AfterIdentifiers(_)
AfterIdentifiers(s) ==
    IF AfterChar(AfterIdentifier(s), ",") # NoMatch
    THEN AfterIdentifiers(AfterChar(AfterIdentifier(s), ","))
    ELSE AfterIdentifier(s)

\* the text after INSERT INTO <table> (
InsertColumns(s) ==
    AfterChar(AfterIdentifier(AfterKeyword(AfterKeyword(s, "INSERT"), "INTO")), "(")

\* number of names in the column list
NumColumns(s) ==
    1 + CountChar(SubSeq(InsertColumns(s), 1, IndexOf(InsertColumns(s), ")")), ",")

RECURSIVE AfterPlaceholders(_, _)
AfterPlaceholders(s, c) ==
    IF c <= 1 THEN AfterChar(s, "?")
    ELSE AfterPlaceholders(AfterChar(AfterChar(s, "?"), ","), c - 1)

AfterTuple(s, c) == AfterChar(AfterPlaceholders(AfterChar(s, "("), c), ")")

RECURSIVE AfterTuples(_, _)
AfterTuples(s, c) ==
    IF AfterChar(AfterTuple(s, c), ",") # NoMatch
    THEN AfterTuples(AfterChar(AfterTuple(s, c), ","), c)
    ELSE AfterTuple(s, c)

IsWellFormedInsert(s) ==
    /\ InsertColumns(s) # NoMatch
    /\ AfterTuples(AfterKeyword(AfterChar(AfterIdentifiers(InsertColumns(s)), ")"), "VALUES"),
                   NumColumns(s)) = ""

(***************************************************************************)
(* C11  An INSERT INTO whose column list or VALUES list cannot be matched  *)
(* (no lists, a missing parenthesis, a tuple with another number of `?`    *)
(* than there are columns) throws an error containing `Unable to parse     *)
(* INSERT statement`, which is not the unsupported-operation error, and    *)
(* returns no query and no document; a well-formed INSERT never does.      *)
(***************************************************************************)
C11_MalformedInsertRejected ==
    (Done /\ IsInsert)
        => /\ ~IsWellFormedInsert(sql)
                => /\ ~result.ok
                   /\ Includes(result.message, "Unable to parse INSERT statement")
                   /\ result.name # "DittoUnsupportedOperationError"
                   /\ ~Includes(result.message, "Unsupported SQL operation")
                   /\ result.query = ""
                   /\ result.args = NoArgs
                   /\ executed = << >>
           /\ IsWellFormedInsert(sql)
                => ~Includes(result.message, "Unable to parse INSERT statement")

C11_Witness ==
    /\ Done /\ op = "run"
    /\ sql = "INSERT INTO users (a, b) VALUES (?, ?), (?)"
    /\ params = <<Positional(1), Positional(2), Positional(3)>>
    /\ result.name = "Error"
    /\ result.message = "Unable to parse INSERT statement"
    /\ executed = << >>

(***************************************************************************)
(* C12  Round trip of the reserved key.  When the rows of an INSERT are    *)
(* read back with all() of a plain SELECT, the j-th returned row equals    *)
(* the j-th inserted row: one key per column as written (unquoted), bound  *)
(* to the parameter of that column; a column id comes back under id with   *)
(* its value and no row has a key _id, while the stored document holds     *)
(* that value under _id and has no key id.                                 *)
(***************************************************************************)
\* the j-th row written by an INSERT over the columns cols
InsertedRow(cols, parameters, j) ==
    [name \in { Without(cols[i], {"\""}) : i \in 1..Len(cols) } |->
        parameters[(j - 1) * Len(cols)
                     + FirstOf({ i \in 1..Len(cols) : Without(cols[i], {"\""}) = name })]]

C12_IdRoundTrip ==
    \A t \in InsertTables, cols \in ColumnLists, m \in 1..MaxRows :
        (pc = "selected" /\ sql = InsertText(t, cols, m))
            => /\ Len(returned) = m
               /\ Len(stored) = m
               /\ \A j \in 1..m :
                    /\ ~returned[j].isArray
                    /\ returned[j].value = InsertedRow(cols, params, j)
                    /\ "_id" \notin DOMAIN returned[j].value
                    /\ "id" \notin DOMAIN stored[j]
                    /\ \A i \in 1..Len(cols) :
                          Without(cols[i], {"\""}) = "id"
                              => /\ stored[j]["_id"] = params[(j - 1) * Len(cols) + i]
                                 /\ returned[j].value["id"] = params[(j - 1) * Len(cols) + i]

C12_Witness ==
    /\ pc = "selected"
    /\ sql = "INSERT INTO users (id, name) VALUES (?, ?), (?, ?)"
    /\ stored[2] = [_id |-> "p3", name |-> "p4"]
    /\ returned[2] = Row(FALSE, [id |-> "p3", name |-> "p4"])

(***************************************************************************)
(* C13  values() on documents with aggregate keys and a field list: the    *)
(* i-th row is an object holding every non-aggregate key of the i-th       *)
(* document with its value, and every field name that is not such a key    *)
(* and whose 1-based position k in the field list has a key ($k) in the    *)
(* document, bound to the value of ($k), the first such position when the  *)
(* name is listed twice; nothing else.  No row an operation returns for a  *)
(* query with a field list has a key of the form ($k).                     *)
(***************************************************************************)
\* the keys of doc that do not have the form ($k)
GroupKeys(doc) ==
    { key \in DOMAIN doc : \A k \in 0..99 : key # "($" \o ToString(k) \o ")" }

\* the positions of the field list that the document has an aggregate for
AggregatePositions(columns, doc) ==
    { k \in 1..Len(columns) :
        columns[k] \notin GroupKeys(doc) /\ ("($" \o ToString(k) \o ")") \in DOMAIN doc }

HasAggregateKeys(doc) == GroupKeys(doc) # DOMAIN doc

C13_AggregatesBoundByPosition ==
    /\ (Done /\ op = "values" /\ result.ok /\ fields # NoFields
             /\ stored # << >> /\ HasAggregateKeys(stored[1]))
          => /\ Len(returned) = Len(stored)
             /\ \A i \in 1..Len(stored) :
                  /\ ~returned[i].isArray
                  /\ DOMAIN returned[i].value
                        = GroupKeys(stored[i])
                            \cup { fields[k] : k \in AggregatePositions(fields, stored[i]) }
                  /\ \A key \in GroupKeys(stored[i]) :
                        returned[i].value[key] = stored[i][key]
                  /\ \A k \in AggregatePositions(fields, stored[i]) :
                        returned[i].value[fields[k]]
                            = stored[i]["($" \o ToString(
                                  FirstOf({ k2 \in AggregatePositions(fields, stored[i]) :
                                              fields[k2] = fields[k] })) \o ")"]
    /\ (Done /\ op \in {"all", "get", "values"} /\ fields # NoFields)
          => \A i \in 1..Len(returned) :
                ~returned[i].isArray => GroupKeys(returned[i].value) = DOMAIN returned[i].value

C13_Witness ==
    /\ Done /\ op = "values" /\ result.ok
    /\ fields = <<"category", "g", "count">>
    /\ stored = <<("category" :> "A") @@ ("($3)" :> "5")>>
    /\ returned = <<Row(FALSE, [category |-> "A", count |-> "5"])>>

(***************************************************************************)
(* C14  Reverse mapping restores id on every path: for every document of   *)
(* the store that carries _id, the row that all(), get() or values()       *)
(* returns for it has no key _id, and when the query has no field list or  *)
(* selects id, the row holds the document's _id value under id (at the     *)
(* position of id in an array row).                                        *)
(***************************************************************************)
C14_IdRestoredOnEveryPath ==
    (Done /\ op \in {"all", "get", "values"} /\ result.ok)
        => \A i \in 1..Len(returned) :
              "_id" \in DOMAIN stored[i]
                  => IF returned[i].isArray
                     THEN \A k \in 1..Len(fields) :
                              fields[k] = "id" => returned[i].value[k] = stored[i]["_id"]
                     ELSE /\ "_id" \notin DOMAIN returned[i].value
                          /\ (fields = NoFields \/ \E k \in 1..Len(fields) : fields[k] = "id")
                                => /\ "id" \in DOMAIN returned[i].value
                                   /\ returned[i].value["id"] = stored[i]["_id"]

(***************************************************************************)
(* C15  A requested field that is absent from a result document does not   *)
(* disturb the mapping: whenever some field of the field list is absent    *)
(* from some document, all(), get() and values() still return the row of   *)
(* every document (get(): of the first), the absent field is missing or    *)
(* undefined in it, and every other requested field holds the value the    *)
(* document has for it.                                                    *)
(***************************************************************************)
\* the value the document doc has for the field at position k of columns;
\* UndefinedValue when it has none
RequestedValue(columns, k, doc) ==
    IF HasAggregateKeys(doc)
    THEN IF columns[k] \in GroupKeys(doc) THEN doc[columns[k]]
         ELSE IF ("($" \o ToString(k) \o ")") \in DOMAIN doc
              THEN doc["($" \o ToString(k) \o ")"]
              ELSE UndefinedValue
    ELSE IF columns[k] = "id" /\ "_id" \in DOMAIN doc THEN doc["_id"]
         ELSE IF columns[k] \in DOMAIN doc THEN doc[columns[k]]
         ELSE UndefinedValue

\* the value the returned row holds for the field at position k of columns
ReturnedValue(columns, k, row) ==
    IF row.isArray THEN row.value[k]
    ELSE IF columns[k] \in DOMAIN row.value THEN row.value[columns[k]]
    ELSE UndefinedValue

SomeFieldAbsent ==
    \E i \in 1..Len(stored), k \in 1..Len(fields) :
        RequestedValue(fields, k, stored[i]) = UndefinedValue

C15_AbsentFieldLeavesOthersMapped ==
    (Done /\ op \in {"all", "get", "values"} /\ result.ok /\ fields # NoFields
          /\ SomeFieldAbsent)
        => /\ Len(returned) = (IF op = "get" /\ stored # << >> THEN 1 ELSE Len(stored))
           /\ \A i \in 1..Len(returned), k \in 1..Len(fields) :
                 ReturnedValue(fields, k, returned[i]) = RequestedValue(fields, k, stored[i])

(***************************************************************************)
(* C16  all() and values() return one row per document of the store's      *)
(* result, in the store's order: as many rows as items, [] for an empty    *)
(* result, and the i-th row is made from the i-th item (every value it     *)
(* holds is a value of that item; without a field list it is the item      *)
(* with _id renamed to id, in array mode the item's value of each field).  *)
(* get() returns the row of the first item, and undefined exactly when     *)
(* the result is empty.                                                    *)
(***************************************************************************)
\* the values a document or an object row holds
ValuesOf(f) == { f[key] : key \in DOMAIN f }

\* an item with its key _id renamed to id
Renamed(doc) ==
    [key \in (DOMAIN doc \ {"_id"}) \cup (IF "_id" \in DOMAIN doc THEN {"id"} ELSE {}) |->
        IF key = "id" /\ "_id" \in DOMAIN doc THEN doc["_id"] ELSE doc[key]]

\* the row is made from the document
MadeFrom(row, doc) ==
    /\ IF row.isArray
       THEN \A k \in 1..Len(row.value) : row.value[k] \in ValuesOf(doc) \cup {UndefinedValue}
       ELSE ValuesOf(row.value) \subseteq ValuesOf(doc) \cup {UndefinedValue}
    /\ (fields = NoFields /\ (op # "values" \/ ~HasAggregateKeys(doc)))
          => row = Row(FALSE, Renamed(doc))
    /\ (op = "values" /\ row.isArray)
          => \A k \in 1..Len(fields) : row.value[k] = RequestedValue(fields, k, doc)

OtherParameters(parameters) == [i \in 1..Len(parameters) |-> "v" \o ToString(i)]

\* the values bound in the args of the result
BoundValues ==
    IF IsInsert THEN UNION { ValuesOf(result.args[d]) : d \in DOMAIN result.args }
    ELSE ValuesOf(result.args)

C18_QueryTextIndependentOfValues ==
    (Done /\ op \in {"sqlToDql", "run"})
        => /\ result.ok = sqlToDql(sql, OtherParameters(params)).ok
           /\ result.query = sqlToDql(sql, OtherParameters(params)).query
           /\ \A i \in 1..Len(params) : ~Includes(result.query, params[i])
           /\ BoundValues \subseteq { params[i] : i \in 1..Len(params) }
           /\ op = "run" /\ result.ok => executed = <<StoreCall(result)>>

C18_Witness ==
    /\ Done /\ op = "run"
    /\ sql = "SELECT * FROM users WHERE id = ?"
    /\ params = <<Injection>>
    /\ result.query = "SELECT * FROM users WHERE _id = :arg1"
    /\ result.args = [arg1 |-> Injection]
    /\ executed[1].args = [arg1 |-> "'; DROP TABLE users; --"]

(***************************************************************************)
(* C19  A statement with a JOIN, a subquery or a UNION is never            *)
(* translated: the call fails with DittoUnsupportedOperationError, whose   *)
(* message names the construct and carries a suggestion, returns no query  *)
(* and hands nothing to the store.                                         *)
(***************************************************************************)
C19_JoinSubqueryUnionRejected ==
    (Done /\ op \in {"sqlToDql", "run"} /\ (IsSelect \/ IsUpdate \/ IsDelete)
          /\ (HasJoin \/ HasSubquery \/ HasUnion))
        => /\ ~result.ok
           /\ result.name = "DittoUnsupportedOperationError"
           /\ Includes(result.message, "Unsupported SQL operation: ")
           /\ Includes(result.message, ". ")
           /\ result.query = ""
           /\ executed = << >>

(***************************************************************************)
(* What a transaction function does, read off its statements.              *)
(***************************************************************************)
\* the first statement of fn that cannot be translated, 0 if there is none
FirstMalformed(fn) ==
    FirstOf({ i \in 1..Len(fn.statements) : ~IsWellFormedInsert(fn.statements[i].sql) })

\* fn runs into a statement that cannot be translated
StatementFails(fn) ==
    /\ FirstMalformed(fn) # 0
    /\ (fn.throwAfter = NoThrow \/ FirstMalformed(fn) <= fn.throwAfter)

\* fn reaches its own throw
FnThrows(fn) ==
    /\ fn.throwAfter # NoThrow
    /\ (FirstMalformed(fn) = 0 \/ fn.throwAfter < FirstMalformed(fn))

\* the documents a statement of TxStatements writes
WrittenDocuments(statement) ==
    IF statement.sql = "INSERT INTO users (id, name) VALUES (?, ?)"
    THEN <<[_id |-> "u1", name |-> "Alice"]>>
    ELSE IF statement.sql = "INSERT INTO posts (id, user_id) VALUES (?, ?), (?, ?)"
    THEN <<[_id |-> "p1", user_id |-> "u1"], [_id |-> "p2", user_id |-> "u1"]>>
    ELSE << >>

RECURSIVE AllWritten(_)
AllWritten(statements) ==
    IF statements = << >> THEN << >>
    ELSE WrittenDocuments(Head(statements)) \o AllWritten(Tail(statements))

\* the ids of the documents the statements of TxStatements write
WrittenIds == {"u1", "p1", "p2"}

C21_NestedTransactionThrows ==
    [][Len(nested') > Len(nested) =>
          /\ nested'[Len(nested')].thrown = "Nested transactions are not supported"
          /\ ~nested'[Len(nested')].invoked
          /\ dittoTx' = dittoTx
          /\ executed' = executed
          /\ stored' = stored
          /\ settled' = settled]_vars

\* a function that attempted a nested transaction after its first statement
\* and whose transaction still committed both of its statements
C21_Witness ==
    /\ pc = "settled"
    /\ Len(nested) = 1
    /\ nested[1].step = 1
    /\ settled.state = "resolved"
    /\ Len(dittoTx.executed) = 2

\* C22: a transaction requested as read-only, by accessMode 'read only' or
\* by isReadOnly: true, is opened on the store with isReadOnly = true, and
\* every other transaction with isReadOnly = false
C22_ReadOnlyRequestHonoured ==
    dittoTx.state # "none" =>
        dittoTx.isReadOnly = (config.accessMode = "read only" \/ config.isReadOnly = "true")


\* C28: a statement issued through the tx of a transaction is executed on
\* the store handle of that transaction, never on the root store and never
\* on the handle of another transaction; a statement issued through db is
\* executed on the root store
C28_StatementsRunOnTheirOwnHandle ==
    \A h \in 0..MaxTransactions :
        \A i \in 1..Len(handles[h]) : handles[h][i].via = h

\* two transactions in flight, each has run a statement, and so has db
C28_Witness ==
    /\ \A t \in 1..2 : sessions[t].state = "open"
    /\ \A h \in 0..2 : Len(handles[h]) >= 1


\* C29: the query get() sends to the store is bounded to one row, with or
\* without a field list: a translated query without a LIMIT clause is sent
\* with ' LIMIT 1' appended and the same args, one with a LIMIT clause is
\* sent as it is; an identifier that contains the letters LIMIT is no clause
C29_GetSendsOneRowQuery ==
    (Done /\ op = "get" /\ result.ok) =>
        executed[Len(executed)] =
            StoreCall(IF MentionsKeyword(result.query, "LIMIT")
                      THEN result
                      ELSE [result EXCEPT !.query = @ \o " LIMIT 1"])


\* some column of some entry of the schema, a property with a name, has P
SomeColumn(P(_)) ==
    /\ schema.present
    /\ \E t \in 1..Len(schema.entries) :
          \E c \in 1..Len(schema.entries[t].columns) :
              /\ schema.entries[t].columns[c].name # ""
              /\ P(schema.entries[t].columns[c])

HasUniqueColumn == SomeColumn(LAMBDA c : c.isUnique /\ c.name \notin {"id", "_id"})
HasReference == SomeColumn(LAMBDA c : c.references \/ c.configReferences)
HasCheck == SomeColumn(LAMBDA c : c.check)

\* C26: construction accepts a schema exactly when no column other than
\* id/_id is unique, no column carries a reference and no column has a
\* check; relations objects and an absent schema are skipped.  Otherwise
\* it throws before a session exists and before any store call:
\* DittoUnsupportedConstraintError naming UNIQUE constraints when a unique
\* column exists, else DittoUnsupportedConstraintError naming FOREIGN KEY
\* constraints when a reference exists, else DittoSchemaValidationError
C26_SchemaAcceptedIffSupported ==
    (Done /\ op = "construct") =>
        /\ result.ok <=> ~(HasUniqueColumn \/ HasReference \/ HasCheck)
        /\ result.ok => sessions[RootStore].state = "open"
        /\ ~result.ok =>
              /\ sessions[RootStore].state = "none"
              /\ executed = << >>
              /\ \A h \in DOMAIN handles : handles[h] = << >>
        /\ HasUniqueColumn =>
              /\ result.name = "DittoUnsupportedConstraintError"
              /\ Includes(result.message, "UNIQUE constraints")
        /\ (~HasUniqueColumn /\ HasReference) =>
              /\ result.name = "DittoUnsupportedConstraintError"
              /\ Includes(result.message, "FOREIGN KEY constraints")
        /\ (~HasUniqueColumn /\ ~HasReference /\ HasCheck) =>
              result.name = "DittoSchemaValidationError"

\* a schema whose first table has a column with a reference and whose
\* second table has a unique column: rejected for the unique column
C26_Witness ==
    /\ Done
    /\ op = "construct"
    /\ Len(schema.entries) = 2
    /\ schema.entries[1].columns[1].references
    /\ schema.entries[2].columns[1].name = "email"
    /\ schema.entries[2].columns[1].isUnique
    /\ result.name = "DittoUnsupportedConstraintError"
    /\ Includes(result.message, "UNIQUE constraints")


Observing == pc = "observing"

\* C23: once cancel() has returned the callback is not invoked again: a
\* result that arrives later is ignored and a timer pending at the cancel
\* is cleared and never fires; isActive is true from observe() to the first
\* cancel() and false ever after; a second cancel() changes nothing, and the
\* store observer is cancelled at most once
C23_NoCallbackAfterCancel ==
    [][/\ Observing' => (observer'.isActive <=> observer'.cancels = 0)
       /\ (Observing' /\ ~observer'.isActive) => observer'.timers = {}
       /\ (Observing /\ ~observer.isActive) => calls' = calls
       /\ observer'.storeCancels <= 1
       /\ (observer.cancels >= 1 /\ observer'.cancels > observer.cancels) =>
             observer' = [observer EXCEPT !.cancels = @ + 1]]_vars

\* a debounced observer cancelled twice, with three results delivered of
\* which one set a timer before the cancel: the callback never ran
C23_Witness ==
    /\ Observing
    /\ opts.debounce > 0
    /\ opts.emitInitialValue
    /\ observer.cancels = 2
    /\ ~observer.isFirstCallback
    /\ observer.storeCancels = 1
    /\ Len(delivered) = MaxDeliveries
    /\ calls = << >>

\* C24: without debounce and before any cancel, the callback has run once
\* per delivery and in delivery order, except that with emitInitialValue:
\* false the first delivery, and only that one, is left out: d deliveries
\* make d calls, or d - 1 calls (0 for d <= 1) when the first is suppressed
C24_FirstDeliveryAloneSuppressed ==
    (Observing /\ observer.isActive /\ opts.debounce = 0) =>
        /\ Len(calls) = IF opts.emitInitialValue THEN Len(delivered)
                        ELSE IF Len(delivered) <= 1 THEN 0
                        ELSE Len(delivered) - 1
        /\ \A i \in 1..Len(calls) :
              /\ calls[i].delivery = IF opts.emitInitialValue THEN i ELSE i + 1
              /\ calls[i].rows = observeRows(delivered[calls[i].delivery])

\* three deliveries with emitInitialValue: false and no debounce: two calls
C24_Witness ==
    /\ Observing
    /\ observer.isActive
    /\ opts.debounce = 0
    /\ ~opts.emitInitialValue
    /\ Len(delivered) = 3
    /\ Len(calls) = 2

\* C25: with debounce > 0 at most one timer is pending; a delivery invokes
\* no callback, and one that reaches an active observer leaves exactly the
\* timer it set pending; a timer that fires invokes the callback once, with
\* the rows of the most recent delivery, so that no call carries a result
\* older than one of an earlier call
C25_DebounceKeepsLatest ==
    [][opts.debounce > 0 =>
          /\ Cardinality(observer'.timers) <= 1
          /\ delivered' # delivered =>
                /\ calls' = calls
                /\ (observer'.isActive /\ (opts.emitInitialValue \/ Len(delivered') > 1)) =>
                      observer'.timers = {Len(delivered')}
          /\ calls' # calls =>
                /\ calls' = Append(calls, [rows |-> observeRows(delivered[Len(delivered)]),
                                           delivery |-> Len(delivered),
                                           isActive |-> TRUE])
                /\ observer'.timers = {}
                /\ \A i \in 1..Len(calls) : calls[i].delivery < Len(delivered)]_vars

\* a burst of three deliveries inside one debounce window: one call, with
\* the third result
C25_Witness ==
    /\ Observing
    /\ opts.debounce > 0
    /\ opts.emitInitialValue
    /\ Len(delivered) = 3
    /\ Len(calls) = 1
    /\ calls[1].delivery = 3
    /\ calls[1].rows = observeRows(delivered[3])


\* C27: the rows observe() hands to its callback are the rows all() of the
\* prepared query returns for the same query and the same store result,
\* for a plain select, a select with a field list and an aggregate select
C27_ObserveRowsAreAllRows ==
    \A i \in 1..Len(calls) :
        calls[i].rows = all(fields, isResponseInArrayMode, delivered[calls[i].delivery])

\* C30: while the observer is not cancelled, every result the store
\* delivers is passed to the callback or followed by a newer delivery, so
\* the most recent result reaches the callback: at once without debounce,
\* and with debounce when the timer fires; the one exception is the first
\* delivery under emitInitialValue: false
C30_LatestResultReachesCallback ==
    \A k \in 1..MaxDeliveries :
        (Observing /\ Len(delivered) = k) ~>
            \/ observer.cancels > 0
            \/ Len(delivered) > k
            \/ (k = 1 /\ ~opts.emitInitialValue)
            \/ /\ calls # << >>
               /\ calls[Len(calls)].delivery = k
               /\ calls[Len(calls)].rows = observeRows(delivered[k])

\* a debounced observer, never cancelled, whose callback has the last of
\* three results
C30_Witness ==
    /\ Observing
    /\ opts.debounce > 0
    /\ observer.cancels = 0
    /\ Len(delivered) = MaxDeliveries
    /\ observer.timers = {}
    /\ calls # << >>
    /\ calls[Len(calls)].delivery = MaxDeliveries
    /\ Len(calls) = 2

====
